---- MODULE Spec2Model ----
(***************************************************************************)
(* Model of the in-memory DataStore (backend/data_store.py): bounded       *)
(* per-machine histories, latest-value caches and the active-alarm         *)
(* registry, with the alarm lifecycle embedded in add_alarm_data,          *)
(* acknowledge_alarm and resolve_alarm.                                    *)
(*                                                                         *)
(* Every DataStore method runs its whole body inside `with self.lock`, so  *)
(* each method is one atomic action.  AlarmData objects are mutable and    *)
(* shared by reference between the alarm history deque and the active     *)
(* list, so they live in a heap (alarm_objs) and the containers hold       *)
(* object ids.  The dictionaries are defaultdicts: a subscript read of a   *)
(* missing key inserts it, which the model keeps (Vivify).                 *)
(***************************************************************************)
EXTENDS Integers, Sequences, FiniteSets, TLC

\* ---------------------------------------------------------------- bounds
MaxCapacity == 2      \* largest max_history_size the constructor is given
MaxCalls    == 3      \* number of calls made on the store
MaxBeats    == 2                  \* iterations of the heartbeat loop that are followed
MaxCommands == 2      \* commands that get published on the bus

\* ------------------------------------------------------------ input sets
Machines   == {"M1", "M2"}
AlarmIds   == {"A1", "A2"}
Users      == {"op1", "op2"}
Severities == {"critical", "warning"}
Messages   == {"Unknown alarm"}
PayloadAcks == {"None"}   \* acknowledged_by carried by an alarm payload
Temperatures == {72, 75}
MachineStatus == {"running", "error"}
HealthScores == {40, 100}
Uptimes    == {95}
Commands   == {"start"}
MaxAges    == {24}               \* max_age_hours given to cleanup_old_data
Hours      == {0, 24}            \* the hours at which utcnow() is read

Threads == {"t1", "t2"}          \* the threads and tasks that call the store
Clients == {"c1", "c2", "c3"}    \* the websockets of the live-view clients
ClientOrder == <<"c1", "c2", "c3">>   \* the websockets are named in the order they connect
Tasks   == {"b1", "b2"}          \* the ingest tasks that run a broadcast
Heartbeat == "hb"                \* the task of the heartbeat loop
EventTypes == {"process_data", "alarm"}   \* type of the events of the ingest path
MaxIdleMinutes == 30             \* cleanup_stale_connections(max_idle_minutes=30)
ReturnCodes == {0, 5}            \* rc of a CONNACK: accepted, not authorised
PublishResults == {"MQTT_ERR_SUCCESS", "MQTT_ERR_NO_CONN"}   \* rc of client.publish
AlertWindowHours == 24           \* timedelta(hours=24) of the advisory queries
AllStatuses == {"running", "idle", "maintenance", "error", "offline"}   \* MachineStatus
DataTypes == {"process", "status", "alarms", "heartbeat", "commands"}   \* last part of the subscribed topics
\* the topics of the messages that arrive, split at '/': the subscribed
\* topics of machine M1, and two topics with fewer parts
Topics ==
    {<<"industrial", "factory", "M1", "plc", d>> : d \in DataTypes}
        \cup {<<"industrial", "factory", "M1", "plc">>, <<"industrial", "factory", "M1">>}
\* the payloads of the messages that arrive: bytes that are not JSON, a JSON
\* array, and a JSON object in which the value field of the event
\* (temperature, health_score, severity) is given, absent or of a wrong type
Payloads ==
    {[json |-> "invalid", value |-> "None"], [json |-> "array", value |-> "None"]}
        \cup {[json |-> "object", value |-> v] : v \in {"given", "absent", "mistyped"}}

None   == "None"
NoTime == -1
PayloadTimes == {NoTime, 0}      \* timestamp of a payload: absent, or hour 0

VARIABLES
    max_history_size,   \* DataStore.max_history_size
    now,                \* datetime.utcnow(), in hours
    calls,              \* number of store calls made so far
    alarm_objs,         \* heap of AlarmData objects, by object id
    process_data,       \* machine -> deque of ProcessData
    alarm_data,         \* machine -> deque of AlarmData object ids
    status_data,        \* machine -> deque of StatusData
    ml_alerts,          \* machine -> deque of MLAlert
    commands,           \* machine -> deque of ControlCommand
    latest_process,     \* machine -> ProcessData
    latest_status,      \* machine -> StatusData
    active_alarms,      \* machine -> list of AlarmData object ids
    last,               \* the call that completed last, with its result
    snapshot,           \* the list an alarm accessor returned to its caller
    lock,               \* DataStore.lock: the thread that holds it, or None
    thread_pc,          \* thread -> where it is in the store call it makes
    thread_op,          \* thread -> the DataStore method it is calling
    acquired,           \* thread -> times its current call took the lock
    thread_data,        \* thread -> the record its add_* call was given
    active_connections, \* WebSocketManager.active_connections
    connection_info,    \* WebSocketManager.connection_info
    socket,             \* websocket -> state of the connection to the client
    received,           \* websocket -> the events the client received, in order
    connecting,         \* websocket -> where its connect() call is
    task,               \* task -> the broadcast it is running
    events,             \* number of events handed to broadcast so far
    connected,          \* MQTTClient.connected
    link,               \* the connection of the paho client to the broker
    gateway,            \* where MQTTClient.start() is
    mqtt_loop,          \* where the task of _mqtt_loop is
    published,          \* the commands published on the bus, in order
    command_result,     \* what the last send_command did and returned
    ingest,             \* task -> the inbound message it processes
    arrived,            \* number of inbound messages given to _on_message
    errors              \* number of errors the ingest path has logged

\* the DataStore and its clock
storevars == <<max_history_size, now, calls, alarm_objs, process_data, alarm_data,
               status_data, ml_alerts, commands, latest_process, latest_status,
               active_alarms, last>>

\* the threads that call the store
lockvars == <<lock, thread_pc, thread_op, acquired, thread_data>>

\* the WebSocketManager, its clients and the tasks that broadcast
wsvars == <<active_connections, connection_info, socket, received, connecting,
            task, events>>

\* the MQTTClient: its transport
busvars == <<connected, link, gateway, mqtt_loop, published, command_result>>

\* the MQTTClient: the inbound messages and their tasks
ingestvars == <<ingest, arrived, errors>>

mqttvars == <<busvars, ingestvars>>

\* everything but the DataStore
nonstore == <<snapshot, lockvars, wsvars, mqttvars>>

vars == <<storevars, snapshot, lockvars, wsvars, mqttvars>>

\* ------------------------------------------------------- python helpers
EmptyDict == [k \in {} |-> <<>>]

\* d.get(k, []) : a read that does not insert the key
Get(d, k) == IF k \in DOMAIN d THEN d[k] ELSE <<>>

\* d[k] on a defaultdict: a missing key is inserted with the empty container
Vivify(d, k) == IF k \in DOMAIN d THEN d ELSE d @@ (k :> <<>>)

\* d[k] = v
Put(d, k, v) == [x \in DOMAIN d \cup {k} |-> IF x = k THEN v ELSE d[x]]

\* a mutation: the deque has no maxlen
DequeAppendUnbounded(q, x, n) == Append(q, x)

\* deque(maxlen=n).append(x): the oldest entry is dropped when full
DequeAppend(q, x, n) ==
    IF n = 0 THEN <<>>
    ELSE IF Len(q) >= n THEN Append(SubSeq(q, Len(q) - n + 2, Len(q)), x)
    ELSE Append(q, x)

\* deque(items, maxlen=n): keeps the last n items
DequeOf(items, n) ==
    IF Len(items) > n THEN SubSeq(items, Len(items) - n + 1, Len(items)) ELSE items

RemoveAt(s, i) == SubSeq(s, 1, i - 1) \o SubSeq(s, i + 1, Len(s))

Range(s) == {s[i] : i \in 1..Len(s)}

\* a completed call: the method and the value it returned
Call(op, r) == [op |-> op, ret |-> r]

\* ------------------------------------------------------------ the heap
\* payload.get('timestamp', utcnow()) (mqtt_client.py:171)
Timestamp(ts) == IF ts = NoTime THEN now ELSE ts

\* AlarmData(...) as built by the ingest path (mqtt_client.py:229-242); the
\* payload carries no timestamp and no resolved_at, so they take their defaults
NewAlarm(m, a, sev, msg, ackby, res) ==
    [machine_id      |-> m,
     timestamp       |-> Timestamp(NoTime),
     alarm_id        |-> a,
     severity        |-> sev,
     message         |-> msg,
     acknowledged    |-> (ackby # None),
     acknowledged_by |-> ackby,
     acknowledged_at |-> IF ackby # None THEN now ELSE NoTime,
     resolved        |-> res,
     resolved_at     |-> NoTime]

\* ids referenced from the alarm history or the active list of any machine
Reachable(hist, act) ==
    UNION {Range(hist[m]) : m \in DOMAIN hist} \cup UNION {Range(act[m]) : m \in DOMAIN act}

\* objects that neither a container nor the list a caller holds refers to any
\* more are freed
Collect(heap, hist, act, snap) ==
    [o \in DOMAIN heap \cap (Reachable(hist, act) \cup Range(snap)) |-> heap[o]]

\* index of the first entry of the list whose alarm_id is a, 0 if none
\* (the for ... if alarm.alarm_id == ...: break loops)
FindAlarm(heap, lst, a) ==
    IF \E i \in 1..Len(lst) : heap[lst[i]].alarm_id = a
    THEN CHOOSE i \in 1..Len(lst) :
            /\ heap[lst[i]].alarm_id = a
            /\ \A j \in 1..(i - 1) : heap[lst[j]].alarm_id # a
    ELSE 0

\* a mutation: the last entry is dropped, whatever it is
ListRemoveLast(heap, lst, o) == SubSeq(lst, 1, Len(lst) - 1)

\* list.remove(x): drops the first entry that is x or compares equal to x
\* (pydantic models compare field by field)
ListRemove(heap, lst, o) ==
    LET hits == {i \in 1..Len(lst) : lst[i] = o \/ heap[lst[i]] = heap[o]}
    IN  IF hits = {} THEN lst
        ELSE RemoveAt(lst, CHOOSE i \in hits : \A j \in hits : i <= j)

\* no event
NoMessage == [type |-> None, seq |-> 0]

\* a task that is not broadcasting
IdleTask == [pc |-> "idle", message |-> NoMessage, connections_copy |-> <<>>, i |-> 0,
             outcome |-> None, disconnected_connections |-> <<>>,
             stale_connections |-> <<>>]

\* send_command has not been called
NoCommandResult == [attempts |-> 0, raised |-> None, published |-> FALSE]

\* a thread that carries no record
NoData == [machine_id |-> None]

\* no payload
NoPayload == [json |-> None, value |-> None]

\* a task slot of the ingest path that holds no message
NoIngest == [pc |-> "none", machine_id |-> None, data_type |-> None, payload |-> NoPayload,
             written |-> 0]

\* ------------------------------------------------------------- initial
Init ==
    /\ max_history_size \in 1..MaxCapacity
    /\ now = 0
    /\ calls = 0
    /\ alarm_objs = [o \in {} |-> NewAlarm(None, None, None, None, None, FALSE)]
    /\ process_data = EmptyDict
    /\ alarm_data = EmptyDict
    /\ status_data = EmptyDict
    /\ ml_alerts = EmptyDict
    /\ commands = EmptyDict
    /\ latest_process = EmptyDict
    /\ latest_status = EmptyDict
    /\ active_alarms = EmptyDict
    /\ last = Call("init", None)
    /\ snapshot = <<>>
    /\ lock = None
    /\ thread_pc = [t \in Threads |-> "idle"]
    /\ thread_op = [t \in Threads |-> None]
    /\ acquired = [t \in Threads |-> 0]
    /\ thread_data = [t \in Threads |-> NoData]
    /\ active_connections = <<>>
    /\ connection_info = EmptyDict
    /\ socket = [c \in Clients |-> "new"]
    /\ received = [c \in Clients |-> <<>>]
    /\ connecting = [c \in Clients |-> "idle"]
    /\ task = [t \in Tasks \cup {Heartbeat} |-> IdleTask]
    /\ events = 0
    /\ connected = FALSE
    /\ link = "none"
    /\ gateway = "new"
    /\ mqtt_loop = "none"
    /\ published = <<>>
    /\ command_result = NoCommandResult
    /\ ingest = [t \in Tasks |-> NoIngest]
    /\ arrived = 0
    /\ errors = 0

\* ------------------------------------------------------ alarm lifecycle
\* a mutation: resolve events are kept out of the audit log
AppendAlarmOpenOnly(heap, hist, o, n) ==
    IF heap[o].resolved THEN hist ELSE DequeAppend(hist, o, n)

\* a mutation: a record equal to the newest record is not appended again
AppendAlarmOnce(heap, hist, o, n) ==
    IF hist # <<>> /\ heap[hist[Len(hist)]] = heap[o] THEN hist ELSE DequeAppend(hist, o, n)

\* self.alarm_data[data.machine_id].append(data) (line 102)
AppendAlarm(heap, hist, o, n) == DequeAppend(hist, o, n)

\* a mutation: an alarm that is already active keeps its old entry
UpdateActiveKeepOld(heap, act, o) ==
    IF ~heap[o].resolved
    THEN IF FindAlarm(heap, act, heap[o].alarm_id) # 0 THEN act ELSE Append(act, o)
    ELSE SelectSeq(act, LAMBDA x : heap[x].alarm_id # heap[o].alarm_id)

\* a mutation: a resolved event clears the machine's whole active list
UpdateActiveClearAll(heap, act, o) ==
    IF ~heap[o].resolved
    THEN LET i == FindAlarm(heap, act, heap[o].alarm_id)
         IN  IF i # 0 THEN Append(ListRemove(heap, act, act[i]), o)
             ELSE Append(act, o)
    ELSE <<>>

\* a mutation: a re-ingested open alarm is appended without removing the old entry
UpdateActiveNoDedup(heap, act, o) ==
    IF ~heap[o].resolved
    THEN Append(act, o)
    ELSE SelectSeq(act, LAMBDA x : heap[x].alarm_id # heap[o].alarm_id)

\* a mutation: the active list keeps as many entries as the history may hold
UpdateActiveBounded(heap, act, o) ==
    LET i   == FindAlarm(heap, act, heap[o].alarm_id)
        new == IF ~heap[o].resolved
               THEN IF i # 0 THEN Append(ListRemove(heap, act, act[i]), o)
                    ELSE Append(act, o)
               ELSE SelectSeq(act, LAMBDA x : heap[x].alarm_id # heap[o].alarm_id)
    IN  IF Len(new) > max_history_size
        THEN SubSeq(new, Len(new) - max_history_size + 1, Len(new))
        ELSE new

\* a mutation: an active entry that was acknowledged is not replaced
UpdateActiveKeepAcknowledged(heap, act, o) ==
    IF ~heap[o].resolved
    THEN LET i == FindAlarm(heap, act, heap[o].alarm_id)
         IN  IF i # 0
             THEN IF heap[act[i]].acknowledged THEN act
                  ELSE Append(ListRemove(heap, act, act[i]), o)
             ELSE Append(act, o)
    ELSE SelectSeq(act, LAMBDA x : heap[x].alarm_id # heap[o].alarm_id)

\* the active list of machine m after add_alarm_data's update (lines 105-123)
UpdateActive(heap, act, o) ==
    IF ~heap[o].resolved
    THEN LET i == FindAlarm(heap, act, heap[o].alarm_id)
         IN  IF i # 0 THEN Append(ListRemove(heap, act, act[i]), o)
             ELSE Append(act, o)
    ELSE SelectSeq(act, LAMBDA x : heap[x].alarm_id # heap[o].alarm_id)

\* add_alarm_data: what the call does to the store
AddAlarmData(m, a, sev, msg, ackby, res) ==
    /\ calls < MaxCalls
    /\ calls' = calls + 1
    /\ LET o    == calls + 1
           heap == alarm_objs @@ (o :> NewAlarm(m, a, sev, msg, ackby, res))
           hist == Put(alarm_data, m,
                       AppendAlarm(heap, Get(alarm_data, m), o, max_history_size))
           act  == Put(active_alarms, m, UpdateActive(heap, Get(active_alarms, m), o))
       IN  /\ alarm_data' = hist
           /\ active_alarms' = act
           /\ alarm_objs' = Collect(heap, hist, act, snapshot)
           /\ last' = Call("add_alarm_data", None)
    /\ UNCHANGED <<max_history_size, now, process_data, status_data, ml_alerts,
                   commands, latest_process, latest_status>>

add_alarm_data(m, a, sev, msg, ackby, res) ==
    /\ AddAlarmData(m, a, sev, msg, ackby, res)
    /\ UNCHANGED nonstore

\* alarm.acknowledged = True; acknowledged_by = user_id; acknowledged_at = utcnow()
Acknowledge(obj, u) ==
    [obj EXCEPT !.acknowledged = TRUE, !.acknowledged_by = u, !.acknowledged_at = now]

acknowledge_alarm(m, a, u) ==
    LET act == Vivify(active_alarms, m)
        i   == FindAlarm(alarm_objs, act[m], a)
    IN  /\ calls < MaxCalls
        /\ calls' = calls + 1
        /\ active_alarms' = act
        /\ IF i # 0
           THEN /\ alarm_objs' = [alarm_objs EXCEPT ![act[m][i]] = Acknowledge(@, u)]
                /\ last' = Call("acknowledge_alarm", "True")
           ELSE /\ alarm_objs' = alarm_objs
                /\ last' = Call("acknowledge_alarm", "False")
        /\ UNCHANGED <<max_history_size, now, process_data, alarm_data,
                       status_data, ml_alerts, commands, latest_process, latest_status,
                       nonstore>>

\* a mutation: the alarm is flagged resolved without a resolution time
ResolveFlagOnly(obj) == [obj EXCEPT !.resolved = TRUE]

\* alarm.resolved = True; alarm.resolved_at = utcnow()
Resolve(obj) == [obj EXCEPT !.resolved = TRUE, !.resolved_at = now]

resolve_alarm(m, a, u) ==
    LET act == Vivify(active_alarms, m)
        i   == FindAlarm(alarm_objs, act[m], a)
    IN  /\ calls < MaxCalls
        /\ calls' = calls + 1
        /\ IF i # 0
           THEN LET o    == act[m][i]
                    heap == [alarm_objs EXCEPT ![o] = Resolve(@)]
                    rest == Put(act, m, ListRemove(heap, act[m], o))
                IN  /\ active_alarms' = rest
                    /\ alarm_objs' = Collect(heap, alarm_data, rest, snapshot)
                    /\ last' = Call("resolve_alarm", "True")
           ELSE /\ active_alarms' = act
                /\ alarm_objs' = alarm_objs
                /\ last' = Call("resolve_alarm", "False")
        /\ UNCHANGED <<max_history_size, now, process_data, alarm_data,
                       status_data, ml_alerts, commands, latest_process, latest_status,
                       nonstore>>

\* --------------------------------------------------- bounded histories
NewProcessData(m, ts, temp) ==
    [machine_id |-> m, timestamp |-> Timestamp(ts), temperature |-> temp]

NewStatusData(m, ts, st, hs, up) ==
    [machine_id |-> m, timestamp |-> Timestamp(ts), status |-> st,
     health_score |-> hs, uptime_percentage |-> up]

NewMLAlert(m, ts, sev) ==
    [machine_id |-> m, timestamp |-> Timestamp(ts), severity |-> sev]

NewControlCommand(m, cmd) ==
    [machine_id |-> m, command |-> cmd, timestamp |-> now]

\* a mutation: the cache keeps the sample with the newest timestamp
SetLatestIfNewer(cache, data) ==
    IF data.machine_id \in DOMAIN cache /\ cache[data.machine_id].timestamp > data.timestamp
    THEN cache
    ELSE Put(cache, data.machine_id, data)

\* self.latest_process[data.machine_id] = data, self.latest_status[...] = data
SetLatest(cache, data) == Put(cache, data.machine_id, data)

\* add_process_data: what the call does to the store
AddProcessData(m, ts, temp) ==
    LET data == NewProcessData(m, ts, temp)
    IN  /\ calls < MaxCalls
        /\ calls' = calls + 1
        /\ process_data' = Put(process_data, m,
                               DequeAppend(Get(process_data, m), data, max_history_size))
        /\ latest_process' = SetLatest(latest_process, data)
        /\ last' = Call("add_process_data", None)
        /\ UNCHANGED <<max_history_size, now, alarm_objs, alarm_data, status_data,
                       ml_alerts, commands, latest_status, active_alarms>>

add_process_data(m, ts, temp) ==
    /\ AddProcessData(m, ts, temp)
    /\ UNCHANGED nonstore

\* add_status_data: what the call does to the store
AddStatusData(m, ts, st, hs, up) ==
    LET data == NewStatusData(m, ts, st, hs, up)
    IN  /\ calls < MaxCalls
        /\ calls' = calls + 1
        /\ status_data' = Put(status_data, m,
                              DequeAppend(Get(status_data, m), data, max_history_size))
        /\ latest_status' = SetLatest(latest_status, data)
        /\ last' = Call("add_status_data", None)
        /\ UNCHANGED <<max_history_size, now, alarm_objs, process_data, alarm_data,
                       ml_alerts, commands, latest_process, active_alarms>>

add_status_data(m, ts, st, hs, up) ==
    /\ AddStatusData(m, ts, st, hs, up)
    /\ UNCHANGED nonstore

add_ml_alert(m, ts, sev) ==
    LET alert == NewMLAlert(m, ts, sev)
    IN  /\ calls < MaxCalls
        /\ calls' = calls + 1
        /\ ml_alerts' = Put(ml_alerts, m,
                            DequeAppend(Get(ml_alerts, m), alert, max_history_size))
        /\ last' = Call("add_ml_alert", None)
        /\ UNCHANGED <<max_history_size, now, alarm_objs, process_data, alarm_data,
                       status_data, commands, latest_process, latest_status,
                       active_alarms,
                       nonstore>>

add_command(m, cmd) ==
    LET command == NewControlCommand(m, cmd)
    IN  /\ calls < MaxCalls
        /\ calls' = calls + 1
        /\ commands' = Put(commands, m,
                           DequeAppend(Get(commands, m), command, max_history_size))
        /\ last' = Call("add_command", None)
        /\ UNCHANGED <<max_history_size, now, alarm_objs, process_data, alarm_data,
                       status_data, ml_alerts, latest_process, latest_status,
                       active_alarms,
                       nonstore>>

\* a mutation: pruning drops every advisory, whatever its age
RecentAlertsNone(alerts, cutoff_time) == <<>>

\* a mutation: an advisory that is exactly as old as the cutoff is kept
RecentAlertsInclusive(alerts, cutoff_time) ==
    SelectSeq(alerts, LAMBDA alert : alert.timestamp >= cutoff_time)

\* [alert for alert in alerts if alert.timestamp > cutoff_time]
RecentAlerts(alerts, cutoff_time) ==
    SelectSeq(alerts, LAMBDA alert : alert.timestamp > cutoff_time)

cleanup_old_data(max_age_hours) ==
    LET cutoff_time == now - max_age_hours
    IN  /\ calls < MaxCalls
        /\ calls' = calls + 1
        /\ ml_alerts' = [m \in DOMAIN ml_alerts |->
                            DequeOf(RecentAlerts(ml_alerts[m], cutoff_time),
                                    max_history_size)]
        /\ last' = Call("cleanup_old_data", None)
        /\ UNCHANGED <<max_history_size, now, alarm_objs, process_data, alarm_data,
                       status_data, commands, latest_process, latest_status,
                       active_alarms,
                       nonstore>>

\* datetime.utcnow() advances between calls
Tick ==
    /\ \E h \in Hours : h > now /\ now' = h
    /\ last' = Call("tick", None)
    /\ UNCHANGED <<max_history_size, calls, alarm_objs, process_data, alarm_data,
                   status_data, ml_alerts, commands, latest_process, latest_status,
                   active_alarms,
                   nonstore>>

\* ------------------------------------------------------------ readers
\* the active list of machine m, as object ids (empty if the key is absent)
ActiveOf(m) == Get(active_alarms, m)

\* get_machine_alarms(m): the active AlarmData objects of machine m, by value
ActiveEntries(m) == [i \in 1..Len(ActiveOf(m)) |-> alarm_objs[ActiveOf(m)[i]]]

\* the alarm_ids of the active list of machine m, in list order
ActiveIds(m) == [i \in 1..Len(ActiveOf(m)) |-> alarm_objs[ActiveOf(m)[i]].alarm_id]

\* get_active_alarms(): every key of the registry with a copy of its list
get_active_alarms ==
    [k \in DOMAIN active_alarms |->
        [i \in 1..Len(active_alarms[k]) |-> alarm_objs[active_alarms[k][i]]]]

\* the alarm history of machine m, as object ids
AlarmHistory(m) == Get(alarm_data, m)

HasActive(m, a) == \E i \in 1..Len(ActiveOf(m)) : ActiveIds(m)[i] = a

\* ---------------------------------------------------------- accessors
\* a mutation: the slice is taken whatever the limit
LastEntriesSliced(history, limit) ==
    IF limit >= Len(history) THEN history
    ELSE SubSeq(history, Len(history) - limit + 1, Len(history))

\* history[-limit:] if limit else history
LastEntries(history, limit) ==
    IF limit = 0 \/ limit >= Len(history) THEN history
    ELSE SubSeq(history, Len(history) - limit + 1, Len(history))

\* list.copy(), list(deque): a new list holding the same objects
ShallowCopy(lst) == lst

\* get_machine_alarms: return self.active_alarms[machine_id].copy()
get_machine_alarms(m) ==
    LET act  == Vivify(active_alarms, m)
        snap == ShallowCopy(act[m])
    IN  /\ calls < MaxCalls
        /\ calls' = calls + 1
        /\ active_alarms' = act
        /\ snapshot' = snap
        /\ alarm_objs' = Collect(alarm_objs, alarm_data, act, snap)
        /\ last' = Call("get_machine_alarms", None)
        /\ UNCHANGED <<max_history_size, now, process_data, alarm_data, status_data,
                       ml_alerts, commands, latest_process, latest_status,
                       lockvars, wsvars, mqttvars>>

\* get_alarm_history: list(self.alarm_data[machine_id]), then the last limit
get_alarm_history(m, limit) ==
    LET hist == Vivify(alarm_data, m)
        lst  == LastEntries(hist[m], limit)
        snap == ShallowCopy(lst)
    IN  /\ calls < MaxCalls
        /\ calls' = calls + 1
        /\ alarm_data' = hist
        /\ snapshot' = snap
        /\ alarm_objs' = Collect(alarm_objs, hist, active_alarms, snap)
        /\ last' = Call("get_alarm_history", None)
        /\ UNCHANGED <<max_history_size, now, process_data, status_data, ml_alerts,
                       commands, latest_process, latest_status, active_alarms,
                       lockvars, wsvars, mqttvars>>

\* get_process_history: list(self.process_data[machine_id]) inserts the key
get_process_history(m, limit) ==
    /\ calls < MaxCalls
    /\ calls' = calls + 1
    /\ process_data' = Vivify(process_data, m)
    /\ last' = Call("get_process_history", LastEntries(Get(process_data, m), limit))
    /\ UNCHANGED <<max_history_size, now, alarm_objs, alarm_data, status_data, ml_alerts,
                   commands, latest_process, latest_status, active_alarms,
                   nonstore>>

\* a mutation: the query returns the whole raw history
ActiveAlertsAll(alerts, t) == alerts

\* [alert for alert in alerts if alert.timestamp > utcnow() - timedelta(hours=24)]
ActiveAlerts(alerts, t) == RecentAlerts(alerts, t - AlertWindowHours)

\* get_machine_ml_alerts: list(self.ml_alerts[machine_id]) inserts the key
get_machine_ml_alerts(m) ==
    /\ calls < MaxCalls
    /\ calls' = calls + 1
    /\ ml_alerts' = Vivify(ml_alerts, m)
    /\ last' = Call("get_machine_ml_alerts", ActiveAlerts(Get(ml_alerts, m), now))
    /\ UNCHANGED <<max_history_size, now, alarm_objs, process_data, alarm_data,
                   status_data, commands, latest_process, latest_status, active_alarms,
                   nonstore>>

\* get_ml_alerts: the recent advisories of every machine that has some
get_ml_alerts ==
    LET recent == [m \in DOMAIN ml_alerts |-> ActiveAlerts(ml_alerts[m], now)]
    IN  /\ calls < MaxCalls
        /\ calls' = calls + 1
        /\ last' = Call("get_ml_alerts",
                        [m \in {x \in DOMAIN recent : recent[x] # <<>>} |-> recent[m]])
        /\ UNCHANGED <<max_history_size, now, alarm_objs, process_data, alarm_data,
                       status_data, ml_alerts, commands, latest_process, latest_status,
                       active_alarms,
                       nonstore>>

\* sum(f[x] for x in S)
RECURSIVE SumOver(_, _)
SumOver(f, S) ==
    IF S = {} THEN 0
    ELSE LET x == CHOOSE y \in S : TRUE IN f[x] + SumOver(f, S \ {x})

\* sum(1 for x in lst if x has the severity)
RECURSIVE CountSeverity(_, _, _)
CountSeverity(heap, lst, sev) ==
    IF lst = <<>> THEN 0
    ELSE (IF heap[Head(lst)].severity = sev THEN 1 ELSE 0)
            + CountSeverity(heap, Tail(lst), sev)

RECURSIVE Gcd(_, _)
Gcd(a, b) == IF b = 0 THEN a ELSE Gcd(b, a % b)

\* a / b of two non-negative numbers, as a fraction in lowest terms
Quotient(a, b) == [num |-> a \div Gcd(a, b), den |-> b \div Gcd(a, b)]

\* a mutation: the averages are divided by the number of machines itself
DivisorUnfloored(total_machines) == total_machines

\* max(total_machines, 1)
Divisor(total_machines) == IF total_machines > 1 THEN total_machines ELSE 1

\* sum(1 for status in self.latest_status.values() if status.status == st)
MachinesIn(statuses, st) ==
    SumOver([m \in DOMAIN statuses |-> IF statuses[m].status = st THEN 1 ELSE 0],
            DOMAIN statuses)

\* a mutation: only the alarms of the two counted severities are totalled
TotalAlarmsCounted(heap, act) ==
    SumOver([m \in DOMAIN act |-> CountSeverity(heap, act[m], "critical")
                                   + CountSeverity(heap, act[m], "warning")],
            DOMAIN act)

\* sum(len(alarms) for alarms in self.active_alarms.values())
TotalAlarms(heap, act) == SumOver([m \in DOMAIN act |-> Len(act[m])], DOMAIN act)

\* the SystemStatus that get_system_status builds, or the error it raises
SystemStatus ==
    LET total_machines == Cardinality(DOMAIN latest_status)
        d == Divisor(total_machines)
    IN  IF d = 0 THEN [raised |-> "ZeroDivisionError"]
        ELSE
        [raised |-> None,
         timestamp |-> now,
         total_machines |-> total_machines,
         running_machines |-> MachinesIn(latest_status, "running"),
         idle_machines |-> MachinesIn(latest_status, "idle"),
         maintenance_machines |-> MachinesIn(latest_status, "maintenance"),
         error_machines |-> MachinesIn(latest_status, "error"),
         offline_machines |-> MachinesIn(latest_status, "offline"),
         total_alarms |-> TotalAlarms(alarm_objs, active_alarms),
         critical_alarms |->
            SumOver([m \in DOMAIN active_alarms |->
                        CountSeverity(alarm_objs, active_alarms[m], "critical")],
                    DOMAIN active_alarms),
         warning_alarms |->
            SumOver([m \in DOMAIN active_alarms |->
                        CountSeverity(alarm_objs, active_alarms[m], "warning")],
                    DOMAIN active_alarms),
         average_health_score |->
            Quotient(SumOver([m \in DOMAIN latest_status |->
                                 latest_status[m].health_score], DOMAIN latest_status), d),
         average_uptime |->
            Quotient(SumOver([m \in DOMAIN latest_status |->
                                 latest_status[m].uptime_percentage],
                             DOMAIN latest_status), d)]

get_system_status ==
    /\ calls < MaxCalls
    /\ calls' = calls + 1
    /\ last' = Call("get_system_status", SystemStatus)
    /\ UNCHANGED <<max_history_size, now, alarm_objs, process_data, alarm_data,
                   status_data, ml_alerts, commands, latest_process, latest_status,
                   active_alarms,
                   nonstore>>

\* get_machine_details reads self.alarm_data[machine_id] and
\* self.ml_alerts[machine_id] before it looks for the machine
get_machine_details(m) ==
    /\ calls < MaxCalls
    /\ calls' = calls + 1
    /\ alarm_data' = Vivify(alarm_data, m)
    /\ ml_alerts' = Vivify(ml_alerts, m)
    /\ last' = Call("get_machine_details", None)
    /\ UNCHANGED <<max_history_size, now, alarm_objs, process_data, status_data,
                   commands, latest_process, latest_status, active_alarms,
                   nonstore>>

\* the accessors that read with .get(), .copy() or .items() and insert nothing
PlainReaders == {"get_latest_process_data", "get_machine_process_data",
                 "get_active_alarms", "get_system_status", "get_machine_status",
                 "get_ml_alerts", "get_machines_overview"}

plain_read(op) ==
    /\ calls < MaxCalls
    /\ calls' = calls + 1
    /\ last' = Call(op, None)
    /\ UNCHANGED <<max_history_size, now, alarm_objs, process_data, alarm_data,
                   status_data, ml_alerts, commands, latest_process, latest_status,
                   active_alarms,
                   nonstore>>

\* the caller of an accessor edits an AlarmData of the list it was given
CallerEdits == {"edited by the caller"}

caller_edits_entry(i, msg) ==
    /\ i \in 1..Len(snapshot)
    /\ alarm_objs[snapshot[i]].message # msg
    /\ alarm_objs' = [alarm_objs EXCEPT ![snapshot[i]].message = msg]
    /\ last' = Call("caller_edits_entry", None)
    /\ UNCHANGED <<max_history_size, now, calls, process_data, alarm_data, status_data,
                   ml_alerts, commands, latest_process, latest_status, active_alarms,
                   snapshot,
                   lockvars, wsvars, mqttvars>>

\* the caller of an accessor pops the first entry of the list it was given
caller_pops_entry ==
    /\ snapshot # <<>>
    /\ snapshot' = Tail(snapshot)
    /\ alarm_objs' = Collect(alarm_objs, alarm_data, active_alarms, Tail(snapshot))
    /\ last' = Call("caller_pops_entry", None)
    /\ UNCHANGED <<max_history_size, now, calls, process_data, alarm_data, status_data,
                   ml_alerts, commands, latest_process, latest_status, active_alarms,
                   lockvars, wsvars, mqttvars>>

\* ---------------------------------------------------- specifications
\* the whole store
Next ==
    \/ \E m \in Machines, a \in AlarmIds, sev \in Severities, msg \in Messages,
          ackby \in PayloadAcks, res \in BOOLEAN :
            add_alarm_data(m, a, sev, msg, ackby, res)
    \/ \E m \in Machines, a \in AlarmIds, u \in Users : acknowledge_alarm(m, a, u)
    \/ \E m \in Machines, a \in AlarmIds, u \in Users : resolve_alarm(m, a, u)
    \/ \E m \in Machines, ts \in PayloadTimes, temp \in Temperatures :
            add_process_data(m, ts, temp)
    \/ \E m \in Machines, ts \in PayloadTimes, st \in MachineStatus,
          hs \in HealthScores, up \in Uptimes :
            add_status_data(m, ts, st, hs, up)
    \/ \E m \in Machines, ts \in PayloadTimes, sev \in Severities : add_ml_alert(m, ts, sev)
    \/ \E m \in Machines, cmd \in Commands : add_command(m, cmd)
    \/ \E age \in MaxAges : cleanup_old_data(age)
    \/ Tick

Spec == Init /\ [][Next]_vars

\* the alarm lifecycle: alarm ingestion and the operator calls
NextAlarms ==
    \/ \E m \in Machines, a \in AlarmIds, sev \in Severities, msg \in Messages,
          ackby \in PayloadAcks, res \in BOOLEAN :
            add_alarm_data(m, a, sev, msg, ackby, res)
    \/ \E m \in Machines, a \in AlarmIds, u \in Users : acknowledge_alarm(m, a, u)
    \/ \E m \in Machines, a \in AlarmIds, u \in Users : resolve_alarm(m, a, u)

SpecAlarms == Init /\ [][NextAlarms]_vars

\* the latest-value caches: sample and status ingestion, and the clock
NextSamples ==
    \/ \E m \in Machines, ts \in PayloadTimes, temp \in Temperatures :
            add_process_data(m, ts, temp)
    \/ \E m \in Machines, ts \in PayloadTimes, st \in MachineStatus,
          hs \in HealthScores, up \in Uptimes :
            add_status_data(m, ts, st, hs, up)
    \/ Tick

SpecSamples == Init /\ [][NextSamples]_vars

\* the bounded histories: every kind of ingestion, pruning and the clock; the
\* containers of the kinds are independent, so one machine feeds all kinds but
\* the advisories, which cleanup_old_data walks machine by machine
NextHistory ==
    \/ \E m \in {"M1"}, ts \in {NoTime}, temp \in {72} :
            add_process_data(m, ts, temp)
    \/ \E m \in {"M1"}, ts \in {NoTime}, st \in {"running"},
          hs \in {100}, up \in Uptimes :
            add_status_data(m, ts, st, hs, up)
    \/ \E m \in Machines, ts \in PayloadTimes, sev \in {"warning"} : add_ml_alert(m, ts, sev)
    \/ \E m \in {"M1"}, cmd \in Commands : add_command(m, cmd)
    \/ \E m \in {"M1"}, a \in AlarmIds, sev \in {"critical"}, msg \in Messages,
          ackby \in PayloadAcks, res \in BOOLEAN :
            add_alarm_data(m, a, sev, msg, ackby, res)
    \/ \E age \in MaxAges : cleanup_old_data(age)
    \/ Tick

SpecHistory == Init /\ [][NextHistory]_vars

\* the status summary: status and alarm ingestion on two machines, operator
\* resolves, and the summary query
NextSummary ==
    \/ \E m \in Machines, st \in {"running", "idle", "offline"}, hs \in HealthScores :
          add_status_data(m, NoTime, st, hs, 95)
    \/ \E m \in Machines, a \in AlarmIds, sev \in {"critical", "warning", "medium"} :
          add_alarm_data(m, a, sev, "Unknown alarm", None, FALSE)
    \/ \E a \in AlarmIds : resolve_alarm("M1", a, "op1")
    \/ get_system_status

SpecSummary == Init /\ [][NextSummary]_vars

\* the advisories: ingestion with and without a timestamp on two machines,
\* the two queries, pruning and the clock, next to another kind of ingestion
NextAdvisories ==
    \/ \E m \in Machines, ts \in PayloadTimes : add_ml_alert(m, ts, "warning")
    \/ add_process_data("M1", NoTime, 72)
    \/ add_alarm_data("M1", "A1", "critical", "Unknown alarm", None, FALSE)
    \/ get_ml_alerts
    \/ \E m \in Machines : get_machine_ml_alerts(m)
    \/ \E age \in MaxAges : cleanup_old_data(age)
    \/ Tick

SpecAdvisories == Init /\ [][NextAdvisories]_vars

\* the store with its readers: every kind of call, the alarm calls on both
\* machines, and a caller that keeps and edits the list an accessor gave it
Limits == {0, 1}          \* limit of a history accessor: 0 reads the whole history

NextAccess ==
    \/ \E m \in Machines, a \in AlarmIds, res \in BOOLEAN :
          add_alarm_data(m, a, "critical", "Unknown alarm", None, res)
    \/ \E a \in AlarmIds : acknowledge_alarm("M1", a, "op1")
    \/ \E a \in AlarmIds : resolve_alarm("M1", a, "op1")
    \/ add_process_data("M1", NoTime, 72)
    \/ add_status_data("M1", NoTime, "running", 100, 95)
    \/ \E ts \in PayloadTimes : add_ml_alert("M1", ts, "warning")
    \/ add_command("M1", "start")
    \/ \E age \in MaxAges : cleanup_old_data(age)
    \/ Tick
    \/ get_machine_alarms("M1")
    \/ \E limit \in Limits : get_alarm_history("M1", limit)
    \/ get_process_history("M1", 0)
    \/ get_machine_ml_alerts("M1")
    \/ get_machine_details("M1")
    \/ plain_read("get_active_alarms")
    \/ \E i \in 1..MaxCapacity, msg \in CallerEdits : caller_edits_entry(i, msg)
    \/ caller_pops_entry

SpecAccess == Init /\ [][NextAccess]_vars

\* an open alarm that is updated: open events of one machine that carry an
\* acknowledgement or none, the operator's acknowledge, and the clock
EventAcks == {"None", "plc"}     \* acknowledged_by carried by an alarm event

NextReingest ==
    \/ \E a \in AlarmIds, sev \in Severities, ackby \in EventAcks :
          add_alarm_data("M1", a, sev, "Unknown alarm", ackby, FALSE)
    \/ \E a \in AlarmIds, u \in Users : acknowledge_alarm("M1", a, u)
    \/ Tick

SpecReingest == Init /\ [][NextReingest]_vars

\* the history accessors: samples and alarm events of one machine, and the
\* two accessors with every limit up to one more than the largest capacity
QueryLimits == 0..(MaxCapacity + 1)

NextLimits ==
    \/ \E temp \in Temperatures : add_process_data("M1", NoTime, temp)
    \/ \E a \in AlarmIds : add_alarm_data("M1", a, "critical", "Unknown alarm", None, FALSE)
    \/ \E m \in Machines, limit \in QueryLimits : get_process_history(m, limit)
    \/ \E m \in Machines, limit \in QueryLimits : get_alarm_history(m, limit)

SpecLimits == Init /\ [][NextLimits]_vars

\* ------------------------------------------------- WebSocketManager
\* json.dumps(message, default=str): the text the client is sent
Dumps(message) == <<message.type, message.seq>>

\* the welcome message of connect; every connection gets the same fields
WelcomeMessage == [type |-> "connection", seq |-> 0]

\* a mutation: a write to a connection that is gone raises nothing
SendTextUnchecked(ws) ==
    IF socket[ws] = "stalled" THEN "stalled" ELSE "sent"

\* await websocket.send_text(...): the text is handed to the connection when
\* the call is made; the call raises if the connection is gone, and does not
\* come back while the client accepts no data
SendText(ws) ==
    CASE socket[ws] = "open"    -> "sent"
      [] socket[ws] = "stalled" -> "stalled"
      [] OTHER                  -> "failed"

\* what the clients have received once message was sent to ws
Deliver(rcv, ws, message) ==
    IF SendText(ws) = "sent" THEN [rcv EXCEPT ![ws] = Append(@, Dumps(message))] ELSE rcv

\* the registry of the manager as one value
Registry == [active_connections |-> active_connections,
             connection_info |-> connection_info]

\* a mutation: the connection is taken off the list and its metadata is left
disconnectListOnly(reg, ws) ==
    [reg EXCEPT !.active_connections = SelectSeq(@, LAMBDA x : x # ws)]

\* disconnect(websocket): remove it from the list and from the metadata, each
\* only if it is there
disconnect(reg, ws) ==
    [active_connections |->
        IF ws \in Range(reg.active_connections)
        THEN RemoveAt(reg.active_connections,
                      CHOOSE k \in 1..Len(reg.active_connections) :
                         /\ reg.active_connections[k] = ws
                         /\ \A j \in 1..(k - 1) : reg.active_connections[j] # ws)
        ELSE reg.active_connections,
     connection_info |->
        IF ws \in DOMAIN reg.connection_info
        THEN [x \in DOMAIN reg.connection_info \ {ws} |-> reg.connection_info[x]]
        ELSE reg.connection_info]

\* for connection in disconnected_connections: self.disconnect(connection)
RECURSIVE DisconnectAll(_, _)
DisconnectAll(reg, wss) ==
    IF wss = <<>> THEN reg ELSE DisconnectAll(disconnect(reg, Head(wss)), Tail(wss))

\* connect, up to `await websocket.accept()`
connect_accept(ws) ==
    /\ connecting[ws] = "idle"
    /\ \E k \in 1..Len(ClientOrder) :
          /\ ClientOrder[k] = ws
          /\ \A j \in 1..(k - 1) : connecting[ClientOrder[j]] # "idle"
    /\ socket[ws] = "new"
    /\ socket' = [socket EXCEPT ![ws] = "open"]
    /\ connecting' = [connecting EXCEPT ![ws] = "accepted"]
    /\ UNCHANGED <<storevars, snapshot, mqttvars, lockvars, active_connections, connection_info,
                   received, task, events>>

\* a mutation: the connection is listed without its metadata
RegisterNoInfo(reg, ws) ==
    [reg EXCEPT !.active_connections = Append(@, ws)]

\* self.active_connections.append(websocket); self.connection_info[websocket] =
\* {"connected_at": utcnow(), "last_ping": utcnow()}
Register(reg, ws) ==
    [active_connections |-> Append(reg.active_connections, ws),
     connection_info |->
        Put(reg.connection_info, ws, [connected_at |-> now, last_ping |-> now])]

\* a mutation: connect is suspended before the welcome message is sent
send_personal_message_later(ws) == "stalled"

\* await self.send_personal_message(welcome_message, websocket): the call
\* runs, without a suspension, up to its websocket.send_text
send_personal_message(ws) == SendText(ws)

\* connect, from the accept to the send of the welcome message:
\* send_personal_message disconnects the websocket if the send raises
connect_register(ws) ==
    LET reg == Register(Registry, ws)
        out == send_personal_message(ws)
        reg2 == IF out = "failed" THEN disconnect(reg, ws) ELSE reg
    IN  /\ connecting[ws] = "accepted"
        /\ active_connections' = reg2.active_connections
        /\ connection_info' = reg2.connection_info
        /\ received' = IF out = "sent"
                       THEN [received EXCEPT ![ws] = Append(@, Dumps(WelcomeMessage))]
                       ELSE received
        /\ connecting' = [connecting EXCEPT ![ws] =
                             IF out = "stalled" THEN "welcome_stalled" ELSE "welcome_sent"]
        /\ UNCHANGED <<storevars, snapshot, mqttvars, lockvars, socket, task, events>>

\* connect returns to the endpoint, which starts to read from the websocket
connect_return(ws) ==
    /\ connecting[ws] = "welcome_sent"
    /\ connecting' = [connecting EXCEPT ![ws] = "connected"]
    /\ UNCHANGED <<storevars, snapshot, mqttvars, lockvars, active_connections, connection_info,
                   socket, received, task, events>>

\* the client goes away
client_closes(ws) ==
    /\ socket[ws] = "open"
    /\ socket' = [socket EXCEPT ![ws] = "closed"]
    /\ UNCHANGED <<storevars, snapshot, mqttvars, lockvars, active_connections, connection_info,
                   received, connecting, task, events>>

\* the client stops reading: writes to it do not complete any more
client_stalls(ws) ==
    /\ socket[ws] = "open"
    /\ socket' = [socket EXCEPT ![ws] = "stalled"]
    /\ UNCHANGED <<storevars, snapshot, mqttvars, lockvars, active_connections, connection_info,
                   received, connecting, task, events>>

\* the reply of the endpoint to a text of the client
EchoMessage == [type |-> "echo", seq |-> 0]

\* websocket_endpoint: the client sends a text, receive_text returns it and
\* the handler sends it back; the first text of each client is followed
endpoint_echo(ws) ==
    /\ connecting[ws] = "connected"
    /\ socket[ws] = "open"
    /\ Dumps(EchoMessage) \notin Range(received[ws])
    /\ received' = [received EXCEPT ![ws] = Append(@, Dumps(EchoMessage))]
    /\ UNCHANGED <<storevars, snapshot, mqttvars, lockvars, active_connections,
                   connection_info, socket, connecting, task, events>>

\* websocket_endpoint: receive_text raises on a closed connection and the
\* handler calls disconnect
endpoint_disconnect(ws) ==
    /\ connecting[ws] = "connected"
    /\ socket[ws] = "closed"
    /\ connecting' = [connecting EXCEPT ![ws] = "gone"]
    /\ active_connections' = disconnect(Registry, ws).active_connections
    /\ connection_info' = disconnect(Registry, ws).connection_info
    /\ UNCHANGED <<storevars, snapshot, mqttvars, lockvars, socket, received, task, events>>

\* a mutation: the time is written whether or not the connection has metadata
TouchUnguarded(info, ws, t) ==
    Put(info, ws, [connected_at |-> IF ws \in DOMAIN info THEN info[ws].connected_at ELSE t,
                   last_ping |-> t])

\* if connection in self.connection_info:
\*     self.connection_info[connection]["last_ping"] = datetime.utcnow()
Touch(info, ws, t) ==
    IF ws \in DOMAIN info THEN [info EXCEPT ![ws].last_ping = t] ELSE info

\* a mutation: the first failure ends the delivery loop
MoreConnectionsUnlessFailed(copy, i, outcome) == outcome = "sent" /\ i < Len(copy)

\* for connection in connections_copy: the loop goes on whatever the outcome
MoreConnections(copy, i, outcome) == i < Len(copy)

\* a mutation: every connection of the copy is put on the removal list
CollectFailureAlways(failed, ws, outcome) == Append(failed, ws)

\* except Exception: disconnected_connections.append(connection)
CollectFailure(failed, ws, outcome) ==
    IF outcome = "failed" THEN Append(failed, ws) ELSE failed

\* a mutation: the broadcast takes the first client of the list only
ConnectionsCopyFirst(conns) == <<conns[1]>>

\* connections_copy = self.active_connections.copy()
ConnectionsCopy(conns) == conns

\* broadcast, from the call to the first `await connection.send_text(...)`:
\* what it does to the manager's tasks and to the clients
BroadcastCall(t, message) ==
    /\ events' = events + 1
    /\ IF active_connections = <<>>
       THEN /\ task' = [task EXCEPT ![t] =
                           [IdleTask EXCEPT !.pc = "returned", !.message = message]]
            /\ received' = received
       ELSE LET copy == ConnectionsCopy(active_connections)
                ws   == copy[1]
            IN
            /\ task' = [task EXCEPT ![t] =
                           [IdleTask EXCEPT !.pc = "sending", !.message = message,
                                            !.connections_copy = copy,
                                            !.i = 1, !.outcome = SendText(ws)]]
            /\ received' = Deliver(received, ws, message)

\* a broadcast called by a task that does nothing else in the step
BroadcastBegin(t, message) ==
    /\ BroadcastCall(t, message)
    /\ UNCHANGED <<storevars, snapshot, mqttvars, lockvars, active_connections, connection_info,
                   socket, connecting>>

\* an ingest task (_process_message, one task per bus message) calls
\* broadcast after its store write
broadcast_begin(t, type) ==
    /\ task[t].pc = "idle"
    /\ BroadcastBegin(t, [type |-> type, seq |-> events + 1])

\* broadcast, from the return of one send_text to the next send_text, or
\* past the last one through the removal pass to the return
broadcast_resume(t) ==
    LET r      == task[t]
        ws     == r.connections_copy[r.i]
        info   == IF r.outcome = "sent" THEN Touch(connection_info, ws, now)
                  ELSE connection_info
        failed == CollectFailure(r.disconnected_connections, ws, r.outcome)
    IN  /\ r.pc = "sending"
        /\ r.outcome # "stalled"
        /\ IF MoreConnections(r.connections_copy, r.i, r.outcome)
           THEN LET nxt == r.connections_copy[r.i + 1] IN
                /\ task' = [task EXCEPT ![t] =
                               [r EXCEPT !.i = r.i + 1, !.outcome = SendText(nxt),
                                         !.disconnected_connections = failed]]
                /\ received' = Deliver(received, nxt, r.message)
                /\ connection_info' = info
                /\ active_connections' = active_connections
           ELSE LET reg == DisconnectAll([active_connections |-> active_connections,
                                          connection_info |-> info], failed) IN
                /\ task' = [task EXCEPT ![t] =
                               [IdleTask EXCEPT !.pc = "returned", !.message = r.message]]
                /\ received' = received
                /\ connection_info' = reg.connection_info
                /\ active_connections' = reg.active_connections
        /\ UNCHANGED <<storevars, snapshot, mqttvars, lockvars, socket, connecting, events>>

\* ------------------------------------------------------ the store lock
\* the methods of DataStore; each one's body is a single `with self.lock:` block
StoreMethods ==
    {"add_process_data", "add_alarm_data", "add_status_data", "add_ml_alert",
     "add_command", "get_latest_process_data", "get_machine_process_data",
     "get_process_history", "get_active_alarms", "get_machine_alarms",
     "get_alarm_history", "get_system_status", "get_machine_status", "get_ml_alerts",
     "get_machine_ml_alerts", "get_machines_overview", "get_machine_details",
     "acknowledge_alarm", "resolve_alarm", "cleanup_old_data"}

\* the store writes of _process_message, each followed by `await broadcast`
IngestWrites == {"add_process_data", "add_status_data", "add_alarm_data"}

\* a mutation: get_machine_details asks get_machine_alarms for the alarms
NestedCallsInDetails(method) ==
    IF method = "get_machine_details" THEN {"get_machine_alarms"} ELSE {}

\* the DataStore methods a method calls inside its `with self.lock:` block:
\* every body works on the containers directly and calls none
NestedCalls(method) == {}

\* a thread or task calls a store method and reaches its `with self.lock:`
store_call(t, method) ==
    /\ thread_pc[t] = "idle"
    /\ calls < MaxCalls
    /\ calls' = calls + 1
    /\ thread_op' = [thread_op EXCEPT ![t] = method]
    /\ thread_pc' = [thread_pc EXCEPT ![t] = "acquire"]
    /\ acquired' = [acquired EXCEPT ![t] = 0]
    /\ UNCHANGED <<max_history_size, now, alarm_objs, process_data, alarm_data,
                   status_data, ml_alerts, commands, latest_process, latest_status,
                   active_alarms, last, snapshot, lock, thread_data, wsvars, mqttvars>>

\* Lock.__enter__: threading.Lock is not re-entrant, it is taken only when free
lock_acquire(t) ==
    /\ thread_pc[t] = "acquire"
    /\ lock = None
    /\ lock' = t
    /\ acquired' = [acquired EXCEPT ![t] = @ + 1]
    /\ thread_pc' = [thread_pc EXCEPT ![t] = "body"]
    /\ UNCHANGED <<storevars, snapshot, thread_op, thread_data, wsvars, mqttvars>>

\* the body of the method: a nested store call waits at its own
\* `with self.lock:` while the caller still holds the lock
critical_section(t) ==
    /\ thread_pc[t] = "body"
    /\ thread_pc' = [thread_pc EXCEPT ![t] =
                        IF NestedCalls(thread_op[t]) = {} THEN "release" ELSE "acquire"]
    /\ UNCHANGED <<storevars, snapshot, lock, thread_op, acquired, thread_data, wsvars, mqttvars>>

\* Lock.__exit__, on return and on an exception alike; the ingest path then
\* goes on to its broadcast
lock_release(t) ==
    /\ thread_pc[t] = "release"
    /\ lock' = None
    /\ thread_pc' = [thread_pc EXCEPT ![t] =
                        IF thread_op[t] \in IngestWrites THEN "broadcast" ELSE "idle"]
    /\ UNCHANGED <<storevars, snapshot, thread_op, acquired, thread_data, wsvars, mqttvars>>

\* await self.websocket_manager.broadcast(...) after the store write
broadcast_after_write(t) ==
    /\ thread_pc[t] = "broadcast"
    /\ thread_pc' = [thread_pc EXCEPT ![t] = "idle"]
    /\ UNCHANGED <<storevars, snapshot, lock, thread_op, acquired, thread_data, wsvars, mqttvars>>

thread_step(t) ==
    \/ lock_acquire(t)
    \/ critical_section(t)
    \/ lock_release(t)
    \/ broadcast_after_write(t)

NextLock ==
    \/ \E t \in Threads, method \in StoreMethods : store_call(t, method)
    \/ \E t \in Threads : lock_acquire(t)
    \/ \E t \in Threads : critical_section(t)
    \/ \E t \in Threads : lock_release(t)
    \/ \E t \in Threads : broadcast_after_write(t)

\* every thread that can take a step is scheduled in the end
SpecLock == Init /\ [][NextLock]_vars /\ \A t \in Threads : WF_vars(thread_step(t))

\* ------------------------------------------- the store lock: the caches
\* a thread or task calls add_process_data(data) or add_status_data(data) and
\* reaches its `with self.lock:`
sample_call(t, method, data) ==
    /\ thread_pc[t] = "idle"
    /\ calls < MaxCalls
    /\ calls' = calls + 1
    /\ thread_op' = [thread_op EXCEPT ![t] = method]
    /\ thread_data' = [thread_data EXCEPT ![t] = data]
    /\ thread_pc' = [thread_pc EXCEPT ![t] = "acquire"]
    /\ acquired' = [acquired EXCEPT ![t] = 0]
    /\ UNCHANGED <<max_history_size, now, alarm_objs, process_data, alarm_data,
                   status_data, ml_alerts, commands, latest_process, latest_status,
                   active_alarms, last, snapshot, lock, wsvars, mqttvars>>

\* a mutation: the lock is given up after the append
HolderAfterAppendNone(t) == None

\* the append and the cache update are both inside `with self.lock:`
HolderAfterAppend(t) == t

\* self.process_data[data.machine_id].append(data), resp. self.status_data
append_history(t) ==
    LET data == thread_data[t]
        m    == data.machine_id
    IN  /\ thread_pc[t] = "body"
        /\ thread_op[t] \in {"add_process_data", "add_status_data"}
        /\ IF thread_op[t] = "add_process_data"
           THEN /\ process_data' = Put(process_data, m,
                                       DequeAppend(Get(process_data, m), data,
                                                   max_history_size))
                /\ UNCHANGED status_data
           ELSE /\ status_data' = Put(status_data, m,
                                      DequeAppend(Get(status_data, m), data,
                                                  max_history_size))
                /\ UNCHANGED process_data
        /\ thread_pc' = [thread_pc EXCEPT ![t] = "cache"]
        /\ lock' = HolderAfterAppend(t)
        /\ UNCHANGED <<max_history_size, now, calls, alarm_objs, alarm_data, ml_alerts,
                       commands, latest_process, latest_status, active_alarms, last,
                       snapshot, thread_op, acquired, thread_data, wsvars, mqttvars>>

\* self.latest_process[data.machine_id] = data, resp. self.latest_status
set_latest(t) ==
    LET data == thread_data[t] IN
    /\ thread_pc[t] = "cache"
    /\ IF thread_op[t] = "add_process_data"
       THEN /\ latest_process' = SetLatest(latest_process, data)
            /\ UNCHANGED latest_status
       ELSE /\ latest_status' = SetLatest(latest_status, data)
            /\ UNCHANGED latest_process
    /\ last' = Call(thread_op[t], None)
    /\ thread_pc' = [thread_pc EXCEPT ![t] = "release"]
    /\ UNCHANGED <<max_history_size, now, calls, alarm_objs, process_data, alarm_data,
                   status_data, ml_alerts, commands, active_alarms, snapshot, lock,
                   thread_op, acquired, thread_data, wsvars, mqttvars>>

\* the accessors of the caches
CacheReaders == {"get_latest_process_data", "get_machine_process_data",
                 "get_machine_status"}

\* the body of an accessor of the caches: it reads and changes nothing
read_section(t) ==
    /\ thread_op[t] \in CacheReaders
    /\ critical_section(t)

NextCache ==
    \/ \E t \in Threads, temp \in Temperatures :
          sample_call(t, "add_process_data", NewProcessData("M1", NoTime, temp))
    \/ \E t \in Threads, hs \in HealthScores :
          sample_call(t, "add_status_data", NewStatusData("M1", NoTime, "running", hs, 95))
    \/ \E t \in Threads, method \in CacheReaders : store_call(t, method)
    \/ \E t \in Threads : lock_acquire(t)
    \/ \E t \in Threads : append_history(t)
    \/ \E t \in Threads : set_latest(t)
    \/ \E t \in Threads : read_section(t)
    \/ \E t \in Threads : lock_release(t)
    \/ \E t \in Threads : broadcast_after_write(t)

SpecCache == Init /\ [][NextCache]_vars

\* the manager does not depend on the store: the store is left as constructed
\* with capacity 1
InitManager == Init /\ max_history_size = 1

\* the fan-out: three clients connect and go away while an ingest task
\* broadcasts its event
NextFanout ==
    \/ \E ws \in Clients : connect_accept(ws)
    \/ \E ws \in Clients : connect_register(ws)
    \/ \E ws \in Clients : connect_return(ws)
    \/ \E ws \in Clients : client_closes(ws)
    \/ \E ws \in Clients : client_stalls(ws)
    \/ \E ws \in Clients : endpoint_disconnect(ws)
    \/ \E type \in EventTypes : broadcast_begin("b1", type)
    \/ broadcast_resume("b1")

\* a task whose write has completed is resumed by the event loop in the end
SpecFanout ==
    /\ InitManager
    /\ [][NextFanout]_vars
    /\ WF_vars(broadcast_resume("b1"))

\* concurrent broadcasts: two clients, and two ingest tasks that each
\* broadcast the event of their bus message
NextConcurrent ==
    \/ \E ws \in {"c1", "c2"} : connect_accept(ws)
    \/ \E ws \in {"c1", "c2"} : connect_register(ws)
    \/ \E ws \in {"c1", "c2"} : connect_return(ws)
    \/ \E ws \in {"c1", "c2"} : client_closes(ws)
    \/ \E ws \in {"c1", "c2"} : client_stalls(ws)
    \/ \E ws \in {"c1", "c2"} : endpoint_disconnect(ws)
    \/ broadcast_begin("b1", "process_data")
    \/ broadcast_begin("b2", "alarm")
    \/ \E t \in Tasks : broadcast_resume(t)
    \/ Tick

SpecConcurrent ==
    /\ InitManager
    /\ [][NextConcurrent]_vars
    /\ \A t \in Tasks : WF_vars(broadcast_resume(t))

\* the same clients and broadcasts, where the event loop also resumes in the
\* end an endpoint whose connect has returned or whose read has failed
SpecDetect ==
    /\ InitManager
    /\ [][NextConcurrent]_vars
    /\ \A t \in Tasks : WF_vars(broadcast_resume(t))
    /\ \A ws \in {"c1", "c2"} :
          WF_vars(connect_return(ws)) /\ WF_vars(endpoint_disconnect(ws))

\* ------------------------------------------------- MQTTClient: transport
\* _connect_async, up to the wait: client.connect() has sent the CONNECT, or
\* has failed and start() raises
gateway_connect ==
    /\ gateway = "new"
    /\ \E ok \in BOOLEAN :
          /\ gateway' = (IF ok THEN "waiting" ELSE "failed")
          /\ link' = (IF ok THEN "connecting" ELSE "none")
    /\ UNCHANGED <<storevars, snapshot, lockvars, wsvars, ingestvars,
                   connected, mqtt_loop, published, command_result>>

\* on_connect_wrapper, called by the client library with the rc of the CONNACK
\* while start() waits for the flag
on_connect(rc) ==
    /\ link = "connecting"
    /\ gateway = "waiting"
    /\ connected' = (IF rc = 0 THEN TRUE ELSE connected)
    /\ link' = (IF rc = 0 THEN "up" ELSE "refused")
    /\ UNCHANGED <<storevars, snapshot, lockvars, wsvars, ingestvars,
                   gateway, mqtt_loop, published, command_result>>

\* _connect_async after its wait: the flag is set and start() creates the task
\* of _mqtt_loop, or the wait has timed out and start() raises
connect_wait_ends ==
    /\ gateway = "waiting"
    /\ gateway' = (IF connected THEN "started" ELSE "failed")
    /\ mqtt_loop' = (IF connected THEN "running" ELSE mqtt_loop)
    /\ UNCHANGED <<storevars, snapshot, lockvars, wsvars, ingestvars,
                   connected, link, published, command_result>>

\* the broker or the network ends the connection
broker_drops ==
    /\ link = "up"
    /\ link' = "lost"
    /\ UNCHANGED <<storevars, snapshot, lockvars, wsvars, ingestvars,
                   connected, gateway, mqtt_loop, published, command_result>>

\* a mutation: the polling loop does not look at the flag
LoopGoesOnAlways(flag) == TRUE

\* while self.connected:
LoopGoesOn(flag) == flag

\* one round of _mqtt_loop: the test of the flag, client.loop() - in which the
\* library calls _on_disconnect if the connection has ended - and the sleep
mqtt_loop_iteration ==
    /\ mqtt_loop = "running"
    /\ IF LoopGoesOn(connected)
       THEN /\ mqtt_loop' = "running"
            /\ IF link = "lost"
               THEN connected' = FALSE /\ link' = "closed"
               ELSE UNCHANGED <<connected, link>>
       ELSE /\ mqtt_loop' = "done"
            /\ UNCHANGED <<connected, link>>
    /\ UNCHANGED <<storevars, snapshot, lockvars, wsvars, ingestvars,
                   gateway, published, command_result>>

\* stop(): if self.client and self.connected: disconnect and clear the flag
stop ==
    /\ gateway # "new"
    /\ connected
    /\ connected' = FALSE
    /\ link' = "closed"
    /\ UNCHANGED <<storevars, snapshot, lockvars, wsvars, ingestvars,
                   gateway, mqtt_loop, published, command_result>>

\* a mutation: the command is published whatever the flag says
SendCommandUnguarded(flag, rc) ==
    [attempts  |-> 1,
     raised    |-> IF rc = "MQTT_ERR_SUCCESS" THEN None ELSE "Failed to publish command",
     published |-> rc = "MQTT_ERR_SUCCESS"]

\* send_command: the calls of client.publish it makes, what it raises, and
\* whether the command went out
SendCommand(flag, rc) ==
    IF ~flag
    THEN [attempts |-> 0, raised |-> "MQTT client not connected", published |-> FALSE]
    ELSE [attempts  |-> 1,
          raised    |-> IF rc = "MQTT_ERR_SUCCESS" THEN None
                        ELSE "Failed to publish command",
          published |-> rc = "MQTT_ERR_SUCCESS"]

send_command(m, cmd, rc) ==
    LET r == SendCommand(connected, rc)
    IN  /\ Len(published) < MaxCommands
        /\ command_result' = r
        /\ published' = (IF r.published
                         THEN Append(published, [machine_id |-> m, command |-> cmd])
                         ELSE published)
        /\ UNCHANGED <<storevars, snapshot, lockvars, wsvars, ingestvars,
                       connected, link, gateway, mqtt_loop>>

\* the transport of the gateway from start() to stop(), with commands sent
\* at any time
NextGateway ==
    \/ gateway_connect
    \/ \E rc \in ReturnCodes : on_connect(rc)
    \/ connect_wait_ends
    \/ broker_drops
    \/ mqtt_loop_iteration
    \/ stop
    \/ \E m \in Machines, cmd \in Commands, rc \in PublishResults : send_command(m, cmd, rc)

\* the task of _mqtt_loop is resumed after each of its sleeps
SpecGateway == Init /\ [][NextGateway]_vars /\ WF_vars(mqtt_loop_iteration)

\* ------------------------------------------------- MQTTClient: ingest
\* the data types whose branch of _process_message builds a model, stores it
\* and broadcasts it
StoredTypes == {"process", "status", "alarms"}

\* a mutation: every event is sent with the type of a process event
EventTypeSame(data_type) == "process_data"

\* WebSocketMessage(type=...) of the three branches
EventType(data_type) ==
    CASE data_type = "process" -> "process_data"
      [] data_type = "status"  -> "status"
      [] data_type = "alarms"  -> "alarm"

\* payload.get('temperature', 0.0) and payload.get('health_score', 0.0)
FloatOf(payload, given) == IF payload.value = "absent" THEN 0 ELSE given

\* payload.get('severity', 'medium')
SeverityOf(payload, given) == IF payload.value = "absent" THEN "medium" ELSE given

\* a mutation: once a message has failed, every later message fails
OutcomeAfterFailure(data_type, payload) ==
    IF payload.json # "object" \/ errors > 0 THEN "raise"
    ELSE IF data_type \notin StoredTypes THEN "log"
    ELSE IF payload.value = "mistyped" THEN "raise"
    ELSE "store"

\* what _process_message does with a decoded payload: payload.get raises on a
\* payload that is no object, the model constructors raise on a value of a
\* wrong type, a missing value is replaced by the default of payload.get
Outcome(data_type, payload) ==
    IF payload.json # "object" THEN "raise"
    ELSE IF data_type \notin StoredTypes THEN "log"
    ELSE IF payload.value = "mistyped" THEN "raise"
    ELSE "store"

\* the first task slot that is free
FreeTask == IF ingest["b1"].pc = "none" THEN "b1" ELSE "b2"

\* _on_message: the callback of paho for a message on a subscribed topic
on_message(topic_parts, payload) ==
    /\ arrived < MaxCalls
    /\ arrived' = arrived + 1
    /\ IF Len(topic_parts) < 4
       THEN UNCHANGED <<ingest, errors>>
       ELSE IF Len(topic_parts) < 5 \/ payload.json = "invalid"
       THEN /\ errors' = errors + 1
            /\ UNCHANGED ingest
       ELSE /\ ingest[FreeTask].pc = "none"
            /\ ingest' = [ingest EXCEPT ![FreeTask] =
                             [NoIngest EXCEPT !.pc = "created",
                                              !.machine_id = topic_parts[3],
                                              !.data_type = topic_parts[5],
                                              !.payload = payload]]
            /\ UNCHANGED errors
    /\ UNCHANGED <<storevars, snapshot, lockvars, wsvars, busvars>>

\* the store call of the branch of the data type
RecordEvent(m, data_type, payload) ==
    CASE data_type = "process" -> AddProcessData(m, NoTime, FloatOf(payload, 72))
      [] data_type = "status"  -> AddStatusData(m, NoTime, "running", FloatOf(payload, 100), 95)
      [] data_type = "alarms"  ->
            AddAlarmData(m, "A1", SeverityOf(payload, "critical"), "Unknown alarm", None, FALSE)

\* _process_message, from the start of the task to its first await
process_message(t) ==
    LET g == ingest[t]
        o == Outcome(g.data_type, g.payload)
    IN  /\ g.pc = "created"
        /\ CASE o = "raise" ->
                    /\ errors' = errors + 1
                    /\ ingest' = [ingest EXCEPT ![t].pc = "failed"]
                    /\ UNCHANGED <<storevars, snapshot, lockvars, wsvars, busvars, arrived>>
             [] o = "log" ->
                    /\ ingest' = [ingest EXCEPT ![t].pc = "logged"]
                    /\ UNCHANGED <<storevars, snapshot, lockvars, wsvars, busvars, arrived,
                                   errors>>
             [] o = "store" ->
                    /\ RecordEvent(g.machine_id, g.data_type, g.payload)
                    /\ BroadcastCall(t, [type |-> EventType(g.data_type), seq |-> events + 1])
                    /\ ingest' = [ingest EXCEPT ![t].pc = "broadcast",
                                                ![t].written = calls + 1]
                    /\ UNCHANGED <<snapshot, lockvars, busvars, active_connections,
                                   connection_info, socket, connecting, arrived, errors>>

\* every kind of message arrives, one client listens
NextDecode ==
    \/ connect_accept("c1")
    \/ connect_register("c1")
    \/ connect_return("c1")
    \/ \E topic_parts \in Topics, payload \in Payloads : on_message(topic_parts, payload)
    \/ \E t \in Tasks : process_message(t)
    \/ \E t \in Tasks : broadcast_resume(t)

SpecDecode == InitManager /\ [][NextDecode]_vars

\* the messages of the runs with clients that close and stall: process and
\* alarm messages and a message with a short topic; payloads that are good,
\* that fail the validation, and that are not JSON
IngestTopics ==
    {<<"industrial", "factory", "M1", "plc", d>> : d \in {"process", "alarms"}}
        \cup {<<"industrial", "factory", "M1", "plc">>}

IngestPayloads ==
    {[json |-> "invalid", value |-> "None"]}
        \cup {[json |-> "object", value |-> v] : v \in {"given", "mistyped"}}

NextIngest ==
    \/ \E ws \in {"c1", "c2"} : connect_accept(ws)
    \/ \E ws \in {"c1", "c2"} : connect_register(ws)
    \/ \E ws \in {"c1", "c2"} : connect_return(ws)
    \/ client_closes("c1")
    \/ client_stalls("c2")
    \/ \E ws \in {"c1", "c2"} : endpoint_disconnect(ws)
    \/ \E topic_parts \in IngestTopics, payload \in IngestPayloads :
            on_message(topic_parts, payload)
    \/ \E t \in Tasks : process_message(t)
    \/ \E t \in Tasks : broadcast_resume(t)

\* the event loop runs every task it has created, and resumes a task whose
\* send has ended
SpecIngest ==
    /\ InitManager
    /\ [][NextIngest]_vars
    /\ \A t \in Tasks : WF_vars(process_message(t))
    /\ \A t \in Tasks : WF_vars(broadcast_resume(t))

\* ------------------------------------------------- the heartbeat loop
\* a mutation: no connection counts as stale
StaleConnectionsNone(reg, t) == <<>>

\* a mutation: every connection counts as stale
StaleConnectionsAll(reg, t) == reg.active_connections

\* cleanup_stale_connections, first loop: the connections whose last_ping is
\* more than max_idle_minutes old, in the order of the metadata dict
StaleConnections(reg, t) ==
    SelectSeq(reg.active_connections,
              LAMBDA ws : /\ ws \in DOMAIN reg.connection_info
                          /\ (t - reg.connection_info[ws].last_ping) * 60 > MaxIdleMinutes)

\* heartbeat_loop, top of an iteration: send_heartbeat calls broadcast
heartbeat_begin ==
    /\ task[Heartbeat].pc \in {"idle", "sleeping"}
    /\ events < MaxBeats
    /\ BroadcastBegin(Heartbeat, [type |-> "heartbeat", seq |-> events + 1,
                                  timestamp |-> now])

\* cleanup_stale_connections, from its call to the first
\* `await websocket.close()`, or to asyncio.sleep if nothing is stale
cleanup_begin ==
    LET r     == task[Heartbeat]
        stale == StaleConnections(Registry, now)
    IN  /\ r.pc = "returned"
        /\ IF stale = <<>>
           THEN /\ task' = [task EXCEPT ![Heartbeat] = [r EXCEPT !.pc = "sleeping"]]
                /\ socket' = socket
           ELSE /\ task' = [task EXCEPT ![Heartbeat] =
                               [r EXCEPT !.pc = "closing", !.stale_connections = stale,
                                         !.i = 1]]
                /\ socket' = [socket EXCEPT ![stale[1]] = "closed"]
        /\ UNCHANGED <<storevars, snapshot, mqttvars, lockvars, active_connections,
                       connection_info, received, connecting, events>>

\* cleanup_stale_connections, from the return of one close (whatever it gave)
\* through disconnect to the next close, or to asyncio.sleep
cleanup_resume ==
    LET r   == task[Heartbeat]
        reg == disconnect(Registry, r.stale_connections[r.i])
    IN  /\ r.pc = "closing"
        /\ active_connections' = reg.active_connections
        /\ connection_info' = reg.connection_info
        /\ IF r.i < Len(r.stale_connections)
           THEN /\ task' = [task EXCEPT ![Heartbeat] = [r EXCEPT !.i = r.i + 1]]
                /\ socket' = [socket EXCEPT ![r.stale_connections[r.i + 1]] = "closed"]
           ELSE /\ task' = [task EXCEPT ![Heartbeat] =
                               [r EXCEPT !.pc = "sleeping", !.stale_connections = <<>>,
                                         !.i = 0]]
                /\ socket' = socket
        /\ UNCHANGED <<storevars, snapshot, mqttvars, lockvars, received, connecting, events>>

\* the steps the event loop makes the heartbeat task take once it can go on
heartbeat_step ==
    \/ broadcast_resume(Heartbeat)
    \/ cleanup_begin
    \/ cleanup_resume

\* the heartbeat loop with two clients that connect and go away while the
\* clock advances
NextHeartbeat ==
    \/ \E ws \in {"c1", "c2"} : connect_accept(ws)
    \/ \E ws \in {"c1", "c2"} : connect_register(ws)
    \/ \E ws \in {"c1", "c2"} : connect_return(ws)
    \/ \E ws \in {"c1", "c2"} : client_closes(ws)
    \/ \E ws \in {"c1", "c2"} : client_stalls(ws)
    \/ \E ws \in {"c1", "c2"} : endpoint_disconnect(ws)
    \/ endpoint_echo("c1")
    \/ heartbeat_begin
    \/ broadcast_resume(Heartbeat)
    \/ cleanup_begin
    \/ cleanup_resume
    \/ Tick

SpecHeartbeat ==
    /\ InitManager
    /\ [][NextHeartbeat]_vars
    /\ WF_vars(heartbeat_step)

\* ================================================================ claims
Min(x, y) == IF x <= y THEN x ELSE y

\* the entries of a list of alarm records whose alarm_id is not a
OtherEntries(entries, a) == SelectSeq(entries, LAMBDA e : e.alarm_id # a)

\* C1: in every reachable state the active-alarm list of each machine holds
\* at most one entry per alarm_id.
C1_OneEntryPerAlarmId ==
    \A m \in DOMAIN active_alarms :
        \A i, j \in 1..Len(active_alarms[m]) :
            alarm_objs[active_alarms[m][i]].alarm_id = alarm_objs[active_alarms[m][j]].alarm_id
                => i = j

\* an open alarm was re-ingested while active: the history holds an open record
\* that the registry dropped in favour of a later record of the same alarm
C1_Witness ==
    \E m \in DOMAIN active_alarms :
        /\ Len(active_alarms[m]) = 2
        /\ \E i \in 1..Len(AlarmHistory(m)), j \in 1..Len(ActiveOf(m)) :
              /\ AlarmHistory(m)[i] < ActiveOf(m)[j]
              /\ AlarmHistory(m)[i] \notin Range(ActiveOf(m))
              /\ ~alarm_objs[AlarmHistory(m)[i]].resolved
              /\ alarm_objs[AlarmHistory(m)[i]].alarm_id = ActiveIds(m)[j]

\* C2: after an open (non-resolved) event for (machine_id, alarm_id) is
\* ingested the active list holds exactly one entry for that identity, carrying
\* the fields of that event; ingesting an event of another identity leaves it
\* as it was.
C2_ActiveHoldsLastOpenEvent ==
    [][last'.op = "add_alarm_data" =>
       \A m \in Machines, a \in AlarmIds, sev \in Severities, msg \in Messages,
          ackby \in PayloadAcks :
          add_alarm_data(m, a, sev, msg, ackby, FALSE) =>
            /\ Cardinality({i \in 1..Len(ActiveOf(m)') : ActiveIds(m)'[i] = a}) = 1
            /\ \A i \in 1..Len(ActiveOf(m)') :
                  ActiveIds(m)'[i] = a =>
                     /\ ActiveEntries(m)'[i].severity = sev
                     /\ ActiveEntries(m)'[i].message = msg
                     /\ ActiveEntries(m)'[i].acknowledged = (ackby # None)
                     /\ ActiveEntries(m)'[i].acknowledged_by = ackby
                     /\ ActiveEntries(m)'[i].resolved = FALSE
                     /\ ActiveEntries(m)'[i].timestamp = now
            /\ OtherEntries(ActiveEntries(m)', a) = OtherEntries(ActiveEntries(m), a)
            /\ \A m2 \in Machines \ {m} : ActiveEntries(m2)' = ActiveEntries(m2)
      ]_vars

\* an open alarm acknowledged by an operator was overwritten by a later open
\* event of another severity
C2_Witness ==
    /\ last.op = "add_alarm_data"
    /\ \E m \in DOMAIN active_alarms :
          \E i \in 1..Len(AlarmHistory(m)), j \in 1..Len(ActiveOf(m)) :
              /\ ActiveOf(m)[j] = calls
              /\ AlarmHistory(m)[i] \notin Range(ActiveOf(m))
              /\ alarm_objs[AlarmHistory(m)[i]].alarm_id = ActiveIds(m)[j]
              /\ alarm_objs[AlarmHistory(m)[i]].severity # ActiveEntries(m)[j].severity
              /\ alarm_objs[AlarmHistory(m)[i]].acknowledged
              /\ ~alarm_objs[AlarmHistory(m)[i]].resolved

\* C3: ingesting an event with resolved = true leaves no active entry of that
\* alarm_id on the machine; if there was none the machine's active entries are
\* unchanged; entries with other alarm_ids and other machines are untouched.
C3_ResolvedEventRemoves ==
    [][last'.op = "add_alarm_data" =>
       \A m \in Machines, a \in AlarmIds, sev \in Severities, msg \in Messages,
          ackby \in PayloadAcks :
          add_alarm_data(m, a, sev, msg, ackby, TRUE) =>
            /\ ~HasActive(m, a)'
            /\ ~HasActive(m, a) => ActiveEntries(m)' = ActiveEntries(m)
            /\ ActiveOf(m)' = SelectSeq(ActiveOf(m), LAMBDA x : alarm_objs[x].alarm_id # a)
            /\ OtherEntries(ActiveEntries(m)', a) = OtherEntries(ActiveEntries(m), a)
            /\ \A m2 \in Machines \ {m} : ActiveEntries(m2)' = ActiveEntries(m2)
      ]_vars

\* a resolved event has just removed one of two active alarms of a machine
C3_Witness ==
    /\ last.op = "add_alarm_data"
    /\ \E m \in DOMAIN alarm_data :
          LET h == alarm_data[m] IN
          /\ Len(h) >= 2
          /\ h[Len(h)] = calls
          /\ alarm_objs[calls].resolved
          /\ Len(ActiveOf(m)) = 1
          /\ \E i \in 1..(Len(h) - 1) :
                /\ ~alarm_objs[h[i]].resolved
                /\ alarm_objs[h[i]].alarm_id = alarm_objs[calls].alarm_id
                /\ h[i] \notin Range(ActiveOf(m))

\* the object of the active entry of machine m whose alarm_id is a
ActiveObj(m, a) == ActiveOf(m)[FindAlarm(alarm_objs, ActiveOf(m), a)]

\* the call that is completing appended its event, object calls', to the
\* alarm history of machine m and kept the newest earlier records in order
AppendedToHistory(m) ==
    LET h  == AlarmHistory(m)
        h2 == AlarmHistory(m)'
    IN  /\ Len(h2) = Min(Len(h) + 1, max_history_size)
        /\ h2[Len(h2)] = calls'
        /\ \A k \in 1..(Len(h2) - 1) : h2[k] = h[Len(h) - Len(h2) + 1 + k]

\* the newest alarm record of machine m is the open, still active record of a
OpenJustIngested(m, a) ==
    LET h == AlarmHistory(m)
    IN  /\ Len(h) >= 1
        /\ alarm_objs[h[Len(h)]].alarm_id = a
        /\ ~alarm_objs[h[Len(h)]].resolved
        /\ ActiveOf(m) = <<h[Len(h)]>>

\* C4 as stated: every add_alarm_data call appends the raw event to the
\* bounded alarm history, and an open event followed by a resolved event of the
\* same alarm leaves the active list empty and both records, in arrival order,
\* in the history.
C4_Original ==
    [][last'.op = "add_alarm_data" =>
       \A m \in Machines, a \in AlarmIds, sev \in Severities, msg \in Messages,
          ackby \in PayloadAcks, res \in BOOLEAN :
          add_alarm_data(m, a, sev, msg, ackby, res) =>
            /\ AppendedToHistory(m)
            /\ alarm_objs'[calls'] = NewAlarm(m, a, sev, msg, ackby, res)
            /\ (res /\ OpenJustIngested(m, a)) =>
                  /\ ActiveOf(m)' = <<>>
                  /\ Len(AlarmHistory(m)') >= 2
                  /\ AlarmHistory(m)'[Len(AlarmHistory(m)') - 1] = ActiveOf(m)[1]
                  /\ AlarmHistory(m)'[Len(AlarmHistory(m)')] = calls'
      ]_vars

\* C4 (amended): every add_alarm_data call appends the raw event to the
\* bounded alarm history; an open event followed by a resolved event of the
\* same alarm leaves the active list empty, and the history ends with both
\* records in arrival order when the capacity is at least 2 (with capacity 1
\* it holds the resolve record alone).
C4_AppendsEveryEvent ==
    [][last'.op = "add_alarm_data" =>
       \A m \in Machines, a \in AlarmIds, sev \in Severities, msg \in Messages,
          ackby \in PayloadAcks, res \in BOOLEAN :
          add_alarm_data(m, a, sev, msg, ackby, res) =>
            /\ AppendedToHistory(m)
            /\ calls' \in DOMAIN alarm_objs'
            /\ alarm_objs'[calls'] = NewAlarm(m, a, sev, msg, ackby, res)
            /\ (res /\ OpenJustIngested(m, a)) =>
                  /\ ActiveOf(m)' = <<>>
                  /\ max_history_size >= 2 =>
                        /\ Len(AlarmHistory(m)') >= 2
                        /\ AlarmHistory(m)'[Len(AlarmHistory(m)') - 1] = ActiveOf(m)[1]
                        /\ AlarmHistory(m)'[Len(AlarmHistory(m)')] = calls'
                  /\ max_history_size = 1 => AlarmHistory(m)' = <<calls'>>
      ]_vars

\* an open record directly followed by the resolve record of the same alarm,
\* with nothing left active on the machine
C4_Witness ==
    /\ last.op = "add_alarm_data"
    /\ \E m \in DOMAIN alarm_data :
          LET h == alarm_data[m] IN
          /\ Len(h) = 2
          /\ h[2] = calls
          /\ alarm_objs[h[2]].resolved
          /\ ~alarm_objs[h[1]].resolved
          /\ alarm_objs[h[1]].alarm_id = alarm_objs[h[2]].alarm_id
          /\ alarm_objs[h[1]].severity = "critical"
          /\ ActiveOf(m) = <<>>

\* C5 as stated: resolve_alarm on an alarm id that is not active for the
\* machine returns false and leaves the registry returned by get_active_alarms
\* unchanged.
C5_Original ==
    [][last'.op = "resolve_alarm" =>
       \A m \in Machines, a \in AlarmIds, u \in Users :
          (resolve_alarm(m, a, u) /\ ~HasActive(m, a)) =>
            /\ last'.ret = "False"
            /\ get_active_alarms' = get_active_alarms
      ]_vars

\* C6: resolve_alarm on an active alarm returns true and removes exactly that
\* entry, every other active entry staying as it was; the alarm is then not
\* active, and resolve_alarm or acknowledge_alarm of an alarm that is not
\* active returns false.
C6_ResolveRemovesExactlyThat ==
    [][last'.op \in {"resolve_alarm", "acknowledge_alarm"} =>
       \A m \in Machines, a \in AlarmIds, u \in Users :
          /\ (resolve_alarm(m, a, u) /\ HasActive(m, a)) =>
                /\ last'.ret = "True"
                /\ ActiveOf(m)' = SelectSeq(ActiveOf(m), LAMBDA x : x # ActiveObj(m, a))
                /\ Len(ActiveOf(m)') = Len(ActiveOf(m)) - 1
                /\ OtherEntries(ActiveEntries(m)', a) = OtherEntries(ActiveEntries(m), a)
                /\ \A m2 \in Machines \ {m} : ActiveEntries(m2)' = ActiveEntries(m2)
                /\ ~HasActive(m, a)'
          /\ ((resolve_alarm(m, a, u) \/ acknowledge_alarm(m, a, u)) /\ ~HasActive(m, a)) =>
                last'.ret = "False"
      ]_vars

\* an operator resolved the first of two active alarms of a machine: the
\* second one is still active
C6_Witness ==
    /\ last = Call("resolve_alarm", "True")
    /\ \E m \in DOMAIN alarm_data :
          /\ Len(alarm_data[m]) = 2
          /\ Len(ActiveOf(m)) = 1
          /\ alarm_objs[alarm_data[m][1]].resolved_at # NoTime
          /\ ActiveOf(m)[1] = alarm_data[m][2]

\* C7 as stated: acknowledge_alarm returns true exactly when the alarm is
\* active, then sets acknowledged and acknowledged_by to the caller's actor
\* without changing the set of active alarm ids, and returns false and
\* changes nothing when the alarm is not active.
C7_Original ==
    [][last'.op = "acknowledge_alarm" =>
       \A m \in Machines, a \in AlarmIds, u \in Users :
          acknowledge_alarm(m, a, u) =>
            /\ (last'.ret = "True") <=> HasActive(m, a)
            /\ \A m2 \in Machines : ActiveIds(m2)' = ActiveIds(m2)
            /\ HasActive(m, a) =>
                  /\ alarm_objs'[ActiveObj(m, a)].acknowledged
                  /\ alarm_objs'[ActiveObj(m, a)].acknowledged_by = u
            /\ ~HasActive(m, a) =>
                  /\ last'.ret = "False"
                  /\ UNCHANGED <<alarm_objs, alarm_data, active_alarms, process_data,
                                 status_data, ml_alerts, commands, latest_process,
                                 latest_status>>
      ]_vars

IsFifoAppend(h, h2, x) ==
    /\ Len(h2) = Min(Len(h) + 1, max_history_size)
    /\ h2[Len(h2)] = x
    /\ \A k \in 1..(Len(h2) - 1) : h2[k] = h[Len(h) - Len(h2) + 1 + k]
    /\ Len(h) = max_history_size => h2 = Append(Tail(h), x)

WithinCapacity(d) == \A m \in DOMAIN d : Len(d[m]) <= max_history_size

\* C9: no history container of any kind ever holds more than
\* max_history_size entries, also after cleanup_old_data; an insertion keeps
\* the entries in insertion order and, into a full container, evicts exactly
\* the oldest entry.
C9_BoundedFifoHistory ==
    /\ [](/\ WithinCapacity(process_data)
          /\ WithinCapacity(status_data)
          /\ WithinCapacity(alarm_data)
          /\ WithinCapacity(ml_alerts)
          /\ WithinCapacity(commands))
    /\ [][/\ \A m \in Machines, ts \in PayloadTimes, temp \in Temperatures :
                add_process_data(m, ts, temp) =>
                    IsFifoAppend(Get(process_data, m), Get(process_data, m)',
                                 NewProcessData(m, ts, temp))
          /\ \A m \in Machines, ts \in PayloadTimes, st \in MachineStatus,
                hs \in HealthScores, up \in Uptimes :
                add_status_data(m, ts, st, hs, up) =>
                    IsFifoAppend(Get(status_data, m), Get(status_data, m)',
                                 NewStatusData(m, ts, st, hs, up))
          /\ \A m \in Machines, ts \in PayloadTimes, sev \in Severities :
                add_ml_alert(m, ts, sev) =>
                    IsFifoAppend(Get(ml_alerts, m), Get(ml_alerts, m)',
                                 NewMLAlert(m, ts, sev))
          /\ \A m \in Machines, cmd \in Commands :
                add_command(m, cmd) =>
                    IsFifoAppend(Get(commands, m), Get(commands, m)',
                                 NewControlCommand(m, cmd))
          /\ \A m \in Machines :
                last'.op = "add_alarm_data" /\ AlarmHistory(m)' # AlarmHistory(m) =>
                    IsFifoAppend(AlarmHistory(m), AlarmHistory(m)', calls')
         ]_vars

\* capacity 2: the third record of a machine evicted the first one, whose
\* alarm is still active
C9_Witness ==
    /\ max_history_size = 2
    /\ \E m \in DOMAIN alarm_data :
          /\ alarm_data[m] = <<2, 3>>
          /\ 1 \in Range(ActiveOf(m))

\* C10: the latest-value cache of a machine is the sample (status) ingested
\* last for it, by ingestion order whatever the timestamps; it is the newest
\* entry of the history, and with capacity 1 the history is that sample alone.
C10_LatestIsLastIngested ==
    /\ [](/\ \A m \in DOMAIN latest_process :
                /\ Get(process_data, m) # <<>>
                /\ process_data[m][Len(process_data[m])] = latest_process[m]
                /\ max_history_size = 1 => process_data[m] = <<latest_process[m]>>
          /\ \A m \in DOMAIN latest_status :
                /\ Get(status_data, m) # <<>>
                /\ status_data[m][Len(status_data[m])] = latest_status[m]
                /\ max_history_size = 1 => status_data[m] = <<latest_status[m]>>)
    /\ [][/\ \A m \in Machines, ts \in PayloadTimes, temp \in Temperatures :
                add_process_data(m, ts, temp) =>
                    /\ m \in DOMAIN latest_process'
                    /\ latest_process'[m] = NewProcessData(m, ts, temp)
                    /\ \A m2 \in DOMAIN latest_process \ {m} :
                          latest_process'[m2] = latest_process[m2]
          /\ \A m \in Machines, ts \in PayloadTimes, st \in MachineStatus,
                hs \in HealthScores, up \in Uptimes :
                add_status_data(m, ts, st, hs, up) =>
                    /\ m \in DOMAIN latest_status'
                    /\ latest_status'[m] = NewStatusData(m, ts, st, hs, up)
                    /\ \A m2 \in DOMAIN latest_status \ {m} :
                          latest_status'[m2] = latest_status[m2]
          /\ last'.op # "add_process_data" => latest_process' = latest_process
          /\ last'.op # "add_status_data" => latest_status' = latest_status
         ]_vars

\* a sample stamped hour 0 was ingested after one stamped hour 24: the cache
\* holds the later arrival, not the later timestamp
C10_Witness ==
    /\ last.op = "add_process_data"
    /\ \E m \in DOMAIN latest_process :
          /\ Len(process_data[m]) = 2
          /\ process_data[m][1].timestamp = 24
          /\ process_data[m][2].timestamp = 0
          /\ process_data[m][1].temperature = 72
          /\ latest_process[m] = process_data[m][2]
          /\ latest_process[m].temperature = 75

\* the records of the list a caller holds
SnapshotEntries == [i \in 1..Len(snapshot) |-> alarm_objs[snapshot[i]]]

\* what the store holds: the records of every history and of the registry
StoreContents ==
    <<get_active_alarms,
      [m \in DOMAIN alarm_data |->
          [i \in 1..Len(alarm_data[m]) |-> alarm_objs[alarm_data[m][i]]]],
      process_data, status_data, ml_alerts, commands, latest_process, latest_status>>

StoreOps == {"add_alarm_data", "acknowledge_alarm", "resolve_alarm", "add_process_data",
             "add_status_data", "add_ml_alert", "add_command", "cleanup_old_data"}

OnlyCapacityEviction(h, h2) ==
    \/ h2 = h
    \/ /\ Len(h2) = Len(h) + 1
       /\ SubSeq(h2, 1, Len(h)) = h
    \/ /\ Len(h) = max_history_size
       /\ Len(h2) = Len(h)
       /\ SubSeq(h2, 1, Len(h) - 1) = Tail(h)

\* C12: an entry leaves a history only by capacity eviction on an insertion
\* of its kind for its machine or, for advisories, by cleanup_old_data when it
\* is not newer than the cutoff; an entry leaves the active list only by
\* resolve_alarm or by ingestion of an alarm event of its machine and
\* alarm_id; every other call, the accessors included, leaves every history
\* and every active list as it was.
C12_EntriesLeaveOnlyByEvictionOrResolve ==
    [][\A m \in Machines :
        /\ IF /\ last'.op = "add_process_data"
              /\ \E ts \in PayloadTimes, temp \in Temperatures : add_process_data(m, ts, temp)
           THEN OnlyCapacityEviction(Get(process_data, m), Get(process_data, m)')
           ELSE Get(process_data, m)' = Get(process_data, m)
        /\ IF /\ last'.op = "add_status_data"
              /\ \E ts \in PayloadTimes, st \in MachineStatus, hs \in HealthScores,
                    up \in Uptimes : add_status_data(m, ts, st, hs, up)
           THEN OnlyCapacityEviction(Get(status_data, m), Get(status_data, m)')
           ELSE Get(status_data, m)' = Get(status_data, m)
        /\ IF last'.op = "add_command" /\ \E cmd \in Commands : add_command(m, cmd)
           THEN OnlyCapacityEviction(Get(commands, m), Get(commands, m)')
           ELSE Get(commands, m)' = Get(commands, m)
        /\ IF /\ last'.op = "add_ml_alert"
              /\ \E ts \in PayloadTimes, sev \in Severities : add_ml_alert(m, ts, sev)
           THEN OnlyCapacityEviction(Get(ml_alerts, m), Get(ml_alerts, m)')
           ELSE IF last'.op = "cleanup_old_data"
           THEN \E age \in MaxAges :
                   Get(ml_alerts, m)' =
                      SelectSeq(Get(ml_alerts, m), LAMBDA x : x.timestamp > now - age)
           ELSE Get(ml_alerts, m)' = Get(ml_alerts, m)
        /\ IF last'.op = "add_alarm_data" /\ AlarmHistory(m)' # AlarmHistory(m)
           THEN OnlyCapacityEviction(AlarmHistory(m), AlarmHistory(m)')
           ELSE AlarmHistory(m)' = AlarmHistory(m)
        /\ \A k \in 1..Len(ActiveOf(m)) :
              LET o == ActiveOf(m)[k] IN
              o \notin Range(ActiveOf(m)') =>
                 \/ \E u \in Users : resolve_alarm(m, alarm_objs[o].alarm_id, u)
                 \/ \E sev \in Severities, msg \in Messages, ackby \in PayloadAcks,
                       res \in BOOLEAN :
                       add_alarm_data(m, alarm_objs[o].alarm_id, sev, msg, ackby, res)
        /\ last'.op \notin {"resolve_alarm", "add_alarm_data"} => ActiveOf(m)' = ActiveOf(m)
        /\ SelectSeq(ActiveOf(m), LAMBDA o : o \in Range(ActiveOf(m)')) =
              SelectSeq(ActiveOf(m)', LAMBDA o : o \in Range(ActiveOf(m)))
      ]_vars

\* capacity 1: alarm A was opened, then another alarm of the machine was opened
\* and resolved by an event; A is still active although the resolve record
\* evicted every earlier record from the history
C12_Witness ==
    /\ max_history_size = 1
    /\ last.op = "add_alarm_data"
    /\ \E m \in DOMAIN alarm_data :
          /\ alarm_data[m] = <<3>>
          /\ alarm_objs[3].resolved
          /\ ActiveOf(m) = <<1>>
          /\ alarm_objs[1].alarm_id # alarm_objs[3].alarm_id

\* C13: a store call takes the lock once, holds it only while it runs its
\* body, waits for it only while not holding it, and has released it when it
\* returns or goes on to its broadcast; at most one caller is in a body; and
\* every call that was started returns, so no caller waits for the lock
\* for ever.
C13_LockTakenOnceNoDeadlock ==
    /\ [](\A t \in Threads :
            /\ lock = t <=> thread_pc[t] \in {"body", "release"}
            /\ thread_pc[t] \in {"body", "release"} => acquired[t] = 1
            /\ thread_pc[t] = "acquire" => acquired[t] = 0
            /\ thread_pc[t] \in {"idle", "broadcast"} /\ thread_op[t] # None
                  => acquired[t] = 1)
    /\ [](lock \in Threads \cup {None})
    /\ \A t \in Threads : (thread_pc[t] = "acquire") ~> (thread_pc[t] = "body")
    /\ \A t \in Threads : (thread_pc[t] # "idle") ~> (thread_pc[t] = "idle")

\* one caller is in the body of acknowledge_alarm while the ingest path waits
\* at the lock of add_alarm_data
C13_Witness ==
    /\ lock = "t1"
    /\ thread_op["t1"] = "acknowledge_alarm"
    /\ thread_pc["t1"] = "body"
    /\ thread_op["t2"] = "add_alarm_data"
    /\ thread_pc["t2"] = "acquire"

\* the clients whose delivery attempt by broadcast task t has failed so far
FailedOf(t) ==
    Range(task[t].disconnected_connections) \cup
       (IF task[t].pc = "sending" /\ task[t].outcome = "failed"
        THEN {task[t].connections_copy[task[t].i]} ELSE {})

\* the step makes broadcast task t call send_text for the next client of its copy
Attempts(t) ==
    /\ task'[t].pc = "sending"
    /\ \/ task[t].pc = "idle"
       \/ task[t].pc = "sending" /\ task'[t].i = task[t].i + 1

\* the step is the return of broadcast task t
Returns(t) == task[t].pc = "sending" /\ task'[t].pc = "returned"

\* C14: a broadcast works on the list of clients registered when it was
\* called, attempts every client of that list in order whatever the outcome
\* of the earlier attempts, delivers the event to every client whose
\* connection is open at its attempt, and at its return has unregistered every
\* client whose attempt failed while every other client of the list has the
\* event; a failed attempt never keeps the broadcast from going on.
C14_FailureIsolatedFromOthers ==
    /\ [][\A t \in Tasks :
            /\ Attempts(t) =>
                  LET r  == task'[t]
                      ws == r.connections_copy[r.i] IN
                  /\ r.connections_copy =
                        (IF task[t].pc = "idle" THEN active_connections
                         ELSE task[t].connections_copy)
                  /\ r.i = (IF task[t].pc = "idle" THEN 1 ELSE task[t].i + 1)
                  /\ socket[ws] = "open" =>
                        /\ received'[ws] = Append(received[ws], Dumps(r.message))
                        /\ r.outcome = "sent"
                  /\ socket[ws] = "closed" => r.outcome = "failed"
            /\ Returns(t) =>
                  LET r == task[t] IN
                  /\ r.i = Len(r.connections_copy)
                  /\ \A k \in 1..Len(r.connections_copy) :
                        LET ws == r.connections_copy[k] IN
                        IF ws \in FailedOf(t)
                        THEN /\ ws \notin Range(active_connections')
                             /\ ws \notin DOMAIN connection_info'
                        ELSE Dumps(r.message) \in Range(received'[ws])
         ]_vars
    /\ [](\A t \in Tasks :
            task[t].pc = "sending" /\ task[t].outcome = "failed"
               => ENABLED broadcast_resume(t))

\* three clients are registered, the second one has gone away and the endpoint
\* has not noticed yet; the broadcast has returned: the first and the third
\* client have the event after their welcome and are still registered, the
\* second one has been unregistered
C14_Witness ==
    /\ task["b1"].pc = "returned"
    /\ active_connections = <<"c1", "c3">>
    /\ DOMAIN connection_info = {"c1", "c3"}
    /\ socket["c2"] = "closed"
    /\ connecting["c2"] = "connected"
    /\ received["c1"] = <<Dumps(WelcomeMessage), Dumps(task["b1"].message)>>
    /\ received["c3"] = <<Dumps(WelcomeMessage), Dumps(task["b1"].message)>>
    /\ received["c2"] = <<Dumps(WelcomeMessage)>>

ReceivedSeqs(ws) ==
    [k \in 1..Len(received[ws]) |-> received[ws][k][2]]

\* C16 as the specification states it: every client receives the events in
\* the order in which the broadcasts were invoked.
C16_Original ==
    \A ws \in Clients :
       \A j, k \in 1..Len(received[ws]) :
          j < k /\ received[ws][j][1] # "connection" /\ received[ws][k][1] # "connection"
             => ReceivedSeqs(ws)[j] < ReceivedSeqs(ws)[k]

\* C17 as the specification states it: a broadcast that waits for a client
\* which has stopped reading can give that delivery up, and does: it
\* unregisters the client, goes on and returns.
C17_Original ==
    /\ [](task["b1"].pc = "sending" /\ task["b1"].outcome = "stalled"
             => ENABLED broadcast_resume("b1"))
    /\ (task["b1"].pc = "sending") ~> (task["b1"].pc = "returned")
    /\ \A ws \in Clients :
          (/\ task["b1"].pc = "sending"
           /\ task["b1"].outcome = "stalled"
           /\ task["b1"].connections_copy[task["b1"].i] = ws)
             ~> (ws \notin Range(active_connections))

\* the registry without client ws
Without(reg, ws) ==
    [active_connections |-> SelectSeq(reg.active_connections, LAMBDA c : c # ws),
     connection_info |->
        [c \in DOMAIN reg.connection_info \ {ws} |-> reg.connection_info[c]]]

\* C18: disconnect takes the client out of the list and out of the metadata
\* and leaves every other client as it is; on a client that is not registered
\* it changes nothing, so a second disconnect changes nothing; the endpoint's
\* disconnect of a client does just that, and the list and the metadata
\* always hold the same clients, each one once.
C18_DisconnectIdempotent ==
    /\ [](\A ws \in Clients :
            /\ disconnect(Registry, ws) = Without(Registry, ws)
            /\ disconnect(disconnect(Registry, ws), ws) = disconnect(Registry, ws)
            /\ ws \notin Range(active_connections) /\ ws \notin DOMAIN connection_info
                  => disconnect(Registry, ws) = Registry)
    /\ [](/\ Range(active_connections) = DOMAIN connection_info
          /\ Cardinality(Range(active_connections)) = Len(active_connections))
    /\ [][\A ws \in Clients :
            endpoint_disconnect(ws) =>
               /\ active_connections' = Without(Registry, ws).active_connections
               /\ connection_info' = Without(Registry, ws).connection_info
               /\ ws \notin Range(active_connections)
                     => UNCHANGED <<active_connections, connection_info>>
         ]_vars

\* the second client went away before its welcome could be sent, so connect
\* unregistered it; later the endpoint has called disconnect for it once
\* more, and the two other clients are registered as before
C18_Witness ==
    /\ connecting["c2"] = "gone"
    /\ received["c2"] = <<>>
    /\ active_connections = <<"c1", "c3">>
    /\ DOMAIN connection_info = {"c1", "c3"}
    /\ task["b1"].pc = "returned"
    /\ Len(received["c1"]) = 2

\* the number of welcome events client ws has received
WelcomesOf(ws) ==
    Len(SelectSeq(received[ws], LAMBDA text : text = Dumps(WelcomeMessage)))

C20_Original ==
    /\ [][/\ heartbeat_begin =>
                /\ task'[Heartbeat].message.type = "heartbeat"
                /\ active_connections # <<>> =>
                      task'[Heartbeat].connections_copy = active_connections
          /\ Attempts(Heartbeat) =>
                LET r  == task'[Heartbeat]
                    ws == r.connections_copy[r.i] IN
                /\ r.i = (IF task[Heartbeat].pc = "sending"
                          THEN task[Heartbeat].i + 1 ELSE 1)
                /\ socket[ws] = "open" =>
                      received'[ws] = Append(received[ws], Dumps(r.message))
          /\ Returns(Heartbeat) =>
                task[Heartbeat].i = Len(task[Heartbeat].connections_copy)
          /\ cleanup_begin =>
                /\ task'[Heartbeat].stale_connections =
                      SelectSeq(active_connections,
                                LAMBDA ws : connection_info[ws].last_ping < now)
                /\ task'[Heartbeat].pc = "sleeping" <=>
                      \A ws \in DOMAIN connection_info :
                         connection_info[ws].last_ping = now
          /\ cleanup_resume =>
                LET ws == task[Heartbeat].stale_connections[task[Heartbeat].i] IN
                /\ active_connections' =
                      SelectSeq(active_connections, LAMBDA c : c # ws)
                /\ DOMAIN connection_info' = DOMAIN connection_info \ {ws}
                /\ task'[Heartbeat].pc = "sleeping" <=>
                      task[Heartbeat].i = Len(task[Heartbeat].stale_connections)
         ]_vars
    /\ [](task[Heartbeat].pc = "sending" /\ task[Heartbeat].outcome = "stalled"
             => ENABLED heartbeat_step)
    /\ (task[Heartbeat].pc \in {"sending", "returned", "closing"})
          ~> (task[Heartbeat].pc = "sleeping")

\* C27: when no machine has reported a status, get_system_status raises
\* nothing and returns total_machines = 0, average_health_score = 0 and
\* average_uptime = 0.
C27_EmptySummaryIsZero ==
    last.op = "get_system_status" /\ DOMAIN latest_status = {} =>
       /\ last.ret.raised = None
       /\ last.ret.total_machines = 0
       /\ last.ret.average_health_score = [num |-> 0, den |-> 1]
       /\ last.ret.average_uptime = [num |-> 0, den |-> 1]

\* the summary was asked while no machine had reported a status and one alarm
\* was active
C27_Witness ==
    /\ last.op = "get_system_status"
    /\ DOMAIN latest_status = {}
    /\ \E m \in DOMAIN active_alarms : active_alarms[m] # <<>>
    /\ last.ret.raised = None
    /\ last.ret.total_alarms = 1

\* the active-alarm entries of all machines, as (machine, position) pairs
ActiveEntryPositions ==
    UNION {{<<m, k>> : k \in 1..Len(active_alarms[m])} : m \in DOMAIN active_alarms}

\* the store without its call counter and its record of the last call
StoreData ==
    <<max_history_size, alarm_objs, process_data, alarm_data, status_data, ml_alerts,
      commands, latest_process, latest_status, active_alarms>>

\* C28: the summary get_system_status returns is a reduction of the store as
\* it is at the call: total_machines is the number of machines with a latest
\* status and the sum of the five per-state counts, each of which is the
\* number of machines in that state; total_alarms is the number of active
\* entries over all machines and the critical and warning counts are the
\* numbers of entries of those severities; each average times
\* max(total_machines, 1) is the sum over the machines with a latest status;
\* and the call leaves the store as it was.
C28_SummaryIsPureReduction ==
    /\ [](last.op = "get_system_status" =>
            LET r == last.ret
                n == Cardinality(DOMAIN latest_status)
                d == IF n = 0 THEN 1 ELSE n IN
            /\ r.raised = None
            /\ r.total_machines = n
            /\ r.total_machines = r.running_machines + r.idle_machines
                  + r.maintenance_machines + r.error_machines + r.offline_machines
            /\ r.running_machines =
                  Cardinality({m \in DOMAIN latest_status : latest_status[m].status = "running"})
            /\ r.idle_machines =
                  Cardinality({m \in DOMAIN latest_status : latest_status[m].status = "idle"})
            /\ r.maintenance_machines =
                  Cardinality({m \in DOMAIN latest_status :
                                  latest_status[m].status = "maintenance"})
            /\ r.error_machines =
                  Cardinality({m \in DOMAIN latest_status : latest_status[m].status = "error"})
            /\ r.offline_machines =
                  Cardinality({m \in DOMAIN latest_status : latest_status[m].status = "offline"})
            /\ r.total_alarms = Cardinality(ActiveEntryPositions)
            /\ r.critical_alarms =
                  Cardinality({e \in ActiveEntryPositions :
                     alarm_objs[active_alarms[e[1]][e[2]]].severity = "critical"})
            /\ r.warning_alarms =
                  Cardinality({e \in ActiveEntryPositions :
                     alarm_objs[active_alarms[e[1]][e[2]]].severity = "warning"})
            /\ r.average_health_score.num * d =
                  r.average_health_score.den *
                     SumOver([m \in DOMAIN latest_status |-> latest_status[m].health_score],
                             DOMAIN latest_status)
            /\ r.average_uptime.num * d =
                  r.average_uptime.den *
                     SumOver([m \in DOMAIN latest_status |->
                                 latest_status[m].uptime_percentage], DOMAIN latest_status)
            /\ r.average_health_score.den > 0
            /\ r.average_uptime.den > 0)
    /\ [][get_system_status => UNCHANGED StoreData]_vars

\* two machines have a latest status, one running with health 100 and one
\* offline with health 40: the summary counts one machine in each of the two
\* states and gives mean health 70 and mean uptime 95
C28_Witness ==
    /\ last.op = "get_system_status"
    /\ last.ret.total_machines = 2
    /\ last.ret.running_machines = 1
    /\ last.ret.offline_machines = 1
    /\ last.ret.idle_machines = 0
    /\ last.ret.average_health_score = [num |-> 70, den |-> 1]
    /\ last.ret.average_uptime = [num |-> 95, den |-> 1]

\* the advisories of a raw history that are less than 24 hours old at time t
YoungerThanWindow(alerts, t) ==
    SelectSeq(alerts, LAMBDA alert : t - alert.timestamp < 24)

\* C29: get_ml_alerts and get_machine_ml_alerts return, machine by machine and
\* in the order of the raw history, exactly the advisories that are less than
\* 24 hours old at the query, so none that is 24 hours old or older; the
\* query takes nothing out of any raw history; and an advisory leaves a raw
\* history only by capacity eviction on an insertion or by cleanup_old_data.
C29_OldAdvisoryHiddenNotRemoved ==
    /\ [](last.op = "get_ml_alerts" =>
            /\ DOMAIN last.ret \subseteq DOMAIN ml_alerts
            /\ \A m \in DOMAIN ml_alerts :
                  /\ m \in DOMAIN last.ret =>
                        last.ret[m] = YoungerThanWindow(ml_alerts[m], now)
                  /\ m \notin DOMAIN last.ret =>
                        YoungerThanWindow(ml_alerts[m], now) = <<>>
            /\ \A m \in DOMAIN last.ret : \A k \in 1..Len(last.ret[m]) :
                  now - last.ret[m][k].timestamp < 24)
    /\ [][\A m \in Machines :
            get_machine_ml_alerts(m) =>
               /\ last'.ret = YoungerThanWindow(Get(ml_alerts, m), now)
               /\ \A k \in 1..Len(last'.ret) : now - last'.ret[k].timestamp < 24
               /\ \A x \in DOMAIN ml_alerts : ml_alerts'[x] = ml_alerts[x]
               /\ ml_alerts'[m] = Get(ml_alerts, m)
         ]_vars
    /\ [][get_ml_alerts => ml_alerts' = ml_alerts]_vars
    /\ [][\A m \in DOMAIN ml_alerts :
            \/ last'.op = "cleanup_old_data"
            \/ /\ m \in DOMAIN ml_alerts'
               /\ IF last'.op = "add_ml_alert"
                  THEN OnlyCapacityEviction(ml_alerts[m], ml_alerts'[m])
                  ELSE ml_alerts'[m] = ml_alerts[m]
         ]_vars

\* at hour 24 the raw history of a machine holds an advisory of hour 0 and one
\* of hour 24; the query has just returned the second one alone
C29_Witness ==
    /\ last.op = "get_ml_alerts"
    /\ now = 24
    /\ "M1" \in DOMAIN ml_alerts
    /\ Len(ml_alerts["M1"]) = 2
    /\ ml_alerts["M1"][1].timestamp = 0
    /\ ml_alerts["M1"][2].timestamp = 24
    /\ last.ret = [m \in {"M1"} |-> <<ml_alerts["M1"][2]>>]

\* the store without the advisories, the call counter and the call record
AllButAdvisories ==
    <<max_history_size, alarm_objs, process_data, alarm_data, status_data, commands,
      latest_process, latest_status, active_alarms>>

\* C30: cleanup_old_data(max_age) leaves in every raw advisory history
\* exactly the advisories that are newer than now - max_age, in their order,
\* keeps the machines of the advisory dict, and changes nothing else in the
\* store; no other store call prunes: apart from cleanup_old_data an advisory
\* leaves its history only as the oldest entry of a full history on an
\* insertion.
C30_CleanupPrunesOnlyOldAdvisories ==
    /\ [][\A age \in MaxAges :
            cleanup_old_data(age) =>
               /\ DOMAIN ml_alerts' = DOMAIN ml_alerts
               /\ \A m \in DOMAIN ml_alerts :
                     /\ ml_alerts'[m] =
                           SelectSeq(ml_alerts[m],
                                     LAMBDA alert : ~(alert.timestamp <= now - age))
                     /\ \A k \in 1..Len(ml_alerts[m]) :
                           ml_alerts[m][k].timestamp <= now - age
                              => ml_alerts[m][k] \notin Range(ml_alerts'[m])
               /\ UNCHANGED AllButAdvisories
               /\ now' = now
         ]_vars
    /\ [][last'.op # "cleanup_old_data" =>
            \A m \in DOMAIN ml_alerts :
               /\ m \in DOMAIN ml_alerts'
               /\ OnlyCapacityEviction(ml_alerts[m], ml_alerts'[m])
         ]_vars

\* at hour 24 a machine had an advisory of hour 0 and one of hour 24, and
\* cleanup_old_data(24) has left the second one alone
C30_Witness ==
    /\ last.op = "cleanup_old_data"
    /\ now = 24
    /\ "M1" \in DOMAIN ml_alerts
    /\ Len(ml_alerts["M1"]) = 1
    /\ ml_alerts["M1"][1].timestamp = 24
    /\ calls = 3

\* client ws is in the registry of the manager
Registered(ws) ==
    ws \in Range(active_connections) \/ ws \in DOMAIN connection_info

\* C21: the manager learns that a client is gone from a read or a write that
\* fails, and from nothing else: when the endpoint's read fails the client is
\* out of the registry after the handler; when the welcome send fails the
\* client is out of the registry when connect goes on; when a send of a
\* broadcast fails the client is out of the registry when that broadcast
\* returns; no step of the server waits for or performs a close handshake
\* for this; and every registered client whose connection has closed is
\* unregistered in the end.
C21_DisconnectDetectedFromFailedIO ==
    /\ [][\A ws \in Clients :
            /\ endpoint_disconnect(ws) => socket[ws] = "closed" /\ ~Registered(ws)'
            /\ connect_register(ws) /\ socket[ws] = "closed" => ~Registered(ws)'
            /\ Registered(ws) /\ ~Registered(ws)' =>
                  /\ socket[ws] = "closed"
                  /\ socket'[ws] = socket[ws]
                  /\ \/ endpoint_disconnect(ws)
                     \/ \E t \in Tasks : Returns(t) /\ ws \in FailedOf(t)
         ]_vars
    /\ [][\A t \in Tasks : Returns(t) => \A ws \in FailedOf(t) : ~Registered(ws)']_vars
    /\ \A ws \in Clients :
          (socket[ws] = "closed" /\ Registered(ws)) ~> ~Registered(ws)

\* the first client went away while a broadcast was waiting at the second
\* one, which has stopped reading: the broadcast cannot return, and the
\* failed read of the endpoint has taken the first client out of the registry
C21_Witness ==
    /\ socket["c1"] = "closed"
    /\ connecting["c1"] = "gone"
    /\ received["c1"] # <<>>
    /\ ~Registered("c1")
    /\ \E t \in Tasks :
          /\ task[t].pc = "sending"
          /\ task[t].connections_copy = <<"c1", "c2">>
          /\ task[t].i = 2
          /\ task[t].outcome = "stalled"
          /\ task[t].disconnected_connections = <<"c1">>

\* C25: send_command with the connected flag false makes no call of
\* client.publish, puts nothing on the bus and raises; whenever it raises it
\* has called client.publish at most once and has put nothing on the bus; and
\* it never calls client.publish more than once.
C25_SendCommandFailsFastNoRetry ==
    /\ [][\A m \in Machines, cmd \in Commands, rc \in PublishResults :
            send_command(m, cmd, rc) =>
               /\ ~connected =>
                     /\ command_result'.raised = "MQTT client not connected"
                     /\ command_result'.attempts = 0
                     /\ published' = published
               /\ connected /\ rc # "MQTT_ERR_SUCCESS" =>
                     /\ command_result'.raised = "Failed to publish command"
                     /\ command_result'.attempts = 1
                     /\ published' = published
               /\ connected /\ rc = "MQTT_ERR_SUCCESS" =>
                     /\ command_result'.raised = None
                     /\ command_result'.attempts = 1
                     /\ published' = Append(published, [machine_id |-> m, command |-> cmd])
         ]_vars
    /\ [](command_result.attempts <= 1)
    /\ [](command_result.raised # None => ~command_result.published)
    /\ [][published' # published =>
            \E m \in Machines, cmd \in Commands : send_command(m, cmd, "MQTT_ERR_SUCCESS")
         ]_vars

\* a command went out while the gateway was connected; after the disconnect
\* the next send_command has raised without a call of client.publish
C25_Witness ==
    /\ Len(published) = 1
    /\ ~connected
    /\ link = "closed"
    /\ command_result = [attempts |-> 0, raised |-> "MQTT client not connected",
                         published |-> FALSE]

\* C26: the flag is true only while the connection that a CONNACK with rc 0
\* announced has not been reported ended by _on_disconnect or stop(); it
\* becomes true only in the connect callback with rc 0; once a disconnect has
\* cleared it, it stays false and the connection is never opened again; and
\* the polling loop ends then and stays ended.
C26_FlagFollowsConnectionNoReconnect ==
    /\ [](connected => link \in {"up", "lost"})
    /\ [][~connected /\ connected' => on_connect(0)]_vars
    /\ [][connected /\ ~connected' => stop \/ (mqtt_loop_iteration /\ link = "lost")]_vars
    /\ [][link = "closed" => link' = "closed" /\ ~connected']_vars
    /\ [][mqtt_loop = "done" => mqtt_loop' = "done"]_vars
    /\ [](mqtt_loop = "done" => ~connected)
    /\ (link = "closed") ~> (mqtt_loop # "running")

\* the gateway was connected and polling; the broker ended the connection,
\* _on_disconnect cleared the flag and the polling loop has ended
C26_Witness ==
    /\ gateway = "started"
    /\ link = "closed"
    /\ ~connected
    /\ mqtt_loop = "done"
    /\ published # <<>>

\* a payload that is not JSON or no JSON object, or the payload of a
\* process, status or alarm message that lacks the value field of its
\* event or carries it with a wrong type
Malformed(data_type, payload) ==
    \/ payload.json # "object"
    \/ data_type \in StoredTypes /\ payload.value \in {"absent", "mistyped"}

\* C22, as stated: the task of a malformed inbound message ends its
\* processing with no write to the store and no broadcast.  The code replaces
\* a missing field by the default of payload.get, stores the record and
\* broadcasts it.
C22_Original ==
    [][\A t \in Tasks :
          (ingest[t].pc = "created" /\ ingest'[t].pc # "created"
              /\ Malformed(ingest[t].data_type, ingest[t].payload))
          => (calls' = calls /\ events' = events)]_vars

\* a task that holds a process, status or alarm message whose payload is an
\* object with a value of the right type
WellFormed(g) ==
    g.data_type \in StoredTypes /\ g.payload.json = "object" /\ g.payload.value = "given"

\* C23: a step in which a message fails (short topic, undecodable payload,
\* validation error) only counts the error and ends the task of that message:
\* the store, the clients, the broadcasts and the other tasks are untouched;
\* and whatever has failed before, the task of every well-formed message is
\* run, stores its record and issues its broadcast.
C23_FailureStaysInItsMessage ==
    /\ [][errors' # errors =>
            /\ UNCHANGED <<storevars, snapshot, lockvars, wsvars, busvars>>
            /\ \A u \in Tasks :
                  \/ ingest'[u] = ingest[u]
                  \/ /\ ingest[u].pc = "created"
                     /\ ingest'[u] = [ingest[u] EXCEPT !.pc = "failed"]]_vars
    /\ [][\A t \in Tasks :
            (ingest[t].pc = "created" /\ ingest'[t].pc # "created" /\ WellFormed(ingest[t]))
            => (calls' = calls + 1 /\ events' = events + 1 /\ ingest'[t].pc = "broadcast")]_vars
    /\ \A t \in Tasks :
          (ingest[t].pc = "created" /\ WellFormed(ingest[t]))
              ~> (ingest[t].pc = "broadcast" /\ ingest[t].written > 0)

\* C23, witness: a message with a short topic or an undecodable payload and
\* the first task have failed, the message of the second task was stored and
\* its broadcast has reached client c1
C23_Witness ==
    /\ errors = 2
    /\ ingest["b1"].pc = "failed"
    /\ ingest["b2"].pc = "broadcast"
    /\ ingest["b2"].written = 1
    /\ task["b2"].pc = "returned"
    /\ received["c1"] # <<>>

\* the store holds the record of the message of task t as its machine's
\* newest entry
StoreReflects(t) ==
    LET g == ingest[t]
        m == g.machine_id
    IN
    CASE g.data_type = "process" ->
            LET data == [machine_id |-> m, timestamp |-> now,
                         temperature |-> IF g.payload.value = "absent" THEN 0 ELSE 72]
            IN  /\ m \in DOMAIN latest_process /\ latest_process[m] = data
                /\ Get(process_data, m) # <<>>
                /\ Get(process_data, m)[Len(process_data[m])] = data
      [] g.data_type = "status" ->
            LET data == [machine_id |-> m, timestamp |-> now, status |-> "running",
                         health_score |-> IF g.payload.value = "absent" THEN 0 ELSE 100,
                         uptime_percentage |-> 95]
            IN  /\ m \in DOMAIN latest_status /\ latest_status[m] = data
                /\ Get(status_data, m) # <<>>
                /\ Get(status_data, m)[Len(status_data[m])] = data
      [] g.data_type = "alarms" ->
            /\ g.written \in DOMAIN alarm_objs
            /\ alarm_objs[g.written].machine_id = m
            /\ alarm_objs[g.written].alarm_id = "A1"
            /\ alarm_objs[g.written].severity =
                   (IF g.payload.value = "absent" THEN "medium" ELSE "critical")
            /\ Get(alarm_data, m) # <<>>
            /\ Get(alarm_data, m)[Len(alarm_data[m])] = g.written
            /\ Get(active_alarms, m) # <<>>
            /\ Get(active_alarms, m)[Len(active_alarms[m])] = g.written
      [] OTHER -> FALSE

\* the type of the event that tells the clients of a message of the data type
TypeSentFor(data_type) ==
    IF data_type = "process" THEN "process_data"
    ELSE IF data_type = "status" THEN "status" ELSE "alarm"

\* C24: a store write and the start of a broadcast happen only together, in
\* the step of the task of a process, status or alarms message, write first:
\* when the step ends the store holds the record and one broadcast of the
\* event of that kind, numbered next, has started.  So there are as many
\* broadcasts as stored events, no client gets an event twice, and every
\* event a client has received is the event of a task whose record was
\* written - and is the newest of its machine in the store as long as no
\* later write was made.
C24_StoredThenBroadcastOnce ==
    /\ [][(calls' # calls \/ events' # events) =>
            \E t \in Tasks :
                /\ ingest[t].pc = "created" /\ ingest[t].data_type \in StoredTypes
                /\ ingest'[t].pc = "broadcast"
                /\ calls' = calls + 1 /\ ingest'[t].written = calls'
                /\ events' = events + 1
                /\ task[t].pc = "idle"
                /\ task'[t].message =
                       [type |-> TypeSentFor(ingest[t].data_type), seq |-> events']
                /\ StoreReflects(t)']_vars
    /\ [](events = calls)
    /\ [](\A ws \in Clients : \A i, j \in 1..Len(received[ws]) :
              received[ws][i] = received[ws][j] => i = j)
    /\ [](\A ws \in Clients : \A i \in 1..Len(received[ws]) :
              received[ws][i] # Dumps(WelcomeMessage) =>
                  \E t \in Tasks :
                      /\ ingest[t].pc = "broadcast"
                      /\ received[ws][i] = Dumps(task[t].message)
                      /\ ingest[t].written \in 1..calls
                      /\ (ingest[t].written = calls => StoreReflects(t)))

\* C24, witness: client c1 has received the status event and then the alarm
\* event of machine M1, each stored before; the alarm is the newest write
C24_Witness ==
    /\ Len(received["c1"]) = 3
    /\ received["c1"][2] = <<"status", 1>>
    /\ received["c1"][3] = <<"alarm", 2>>
    /\ calls = 2
    /\ "M1" \in DOMAIN latest_status
    /\ alarm_objs[2].severity = "critical"

\* the machine keys of the per-machine maps of the store
MachineKeys ==
    [process_data |-> DOMAIN process_data, alarm_data |-> DOMAIN alarm_data,
     status_data |-> DOMAIN status_data, ml_alerts |-> DOMAIN ml_alerts,
     commands |-> DOMAIN commands, active_alarms |-> DOMAIN active_alarms]

\* C31, as stated: a call of a read accessor, or an acknowledge or resolve
\* that fails, creates no entry for its machine in any map, and the keys
\* returned by get_active_alarms are the same before and after.  The maps are
\* defaultdicts and the calls index them with the machine id.
C31_Original ==
    [][(/\ calls' # calls
        /\ \/ last'.op \in {"get_machine_alarms", "get_process_history",
                            "get_alarm_history", "get_machine_ml_alerts",
                            "get_machine_details"}
           \/ /\ last'.op \in {"acknowledge_alarm", "resolve_alarm"}
              /\ last'.ret = "False")
       => /\ MachineKeys' = MachineKeys
          /\ DOMAIN get_active_alarms' = DOMAIN get_active_alarms]_vars

\* the clients of the registry: those of the list and those with metadata
Members == [listed |-> active_connections, keyed |-> DOMAIN connection_info]

\* the step hands an event of a broadcast to client ws
GetsEvent(ws) ==
    /\ received'[ws] # received[ws]
    /\ received'[ws][Len(received'[ws])][1] \in EventTypes

\* C32: while clients connect and disconnect between its steps, a broadcast
\* keeps the list of the clients registered at its call and walks it in order
\* (an event reaches a client only as the next client of the list of the
\* broadcast that sends it, so never a client registered after the call); no
\* step of the broadcast before its last changes which clients are
\* registered; the last step comes after the attempt on the last client of
\* the list and removes exactly the clients of the list whose attempt failed.
C32_TwoPhaseBroadcast ==
    /\ [][\A t \in Tasks :
            (task[t].pc = "idle" /\ task'[t].pc = "sending")
               => /\ task'[t].connections_copy = active_connections
                  /\ task'[t].i = 1
                  /\ Members' = Members]_vars
    /\ [][\A t \in Tasks :
            (task[t].pc = "sending" /\ task'[t].pc = "sending" /\ task'[t] # task[t])
               => /\ task'[t].connections_copy = task[t].connections_copy
                  /\ task'[t].i = task[t].i + 1
                  /\ Members' = Members]_vars
    /\ [][\A t \in Tasks :
            (task[t].pc = "sending" /\ task'[t].pc = "returned")
               => /\ task[t].i = Len(task[t].connections_copy)
                  /\ Range(active_connections') = Range(active_connections) \ FailedOf(t)
                  /\ DOMAIN connection_info' = DOMAIN connection_info \ FailedOf(t)]_vars
    /\ [][\A ws \in Clients :
            GetsEvent(ws) =>
               \E t \in Tasks :
                  /\ task'[t].pc = "sending"
                  /\ task'[t] # task[t]
                  /\ task'[t].connections_copy[task'[t].i] = ws
                  /\ received'[ws] = Append(received[ws], Dumps(task'[t].message))]_vars

\* C32, witness: the second broadcast was called when c1 alone was
\* registered and waits for its send to c1; c2 has registered since and has
\* got none of its events.  The first broadcast, called later, has seen its
\* send to c1 fail and is at c2, the last client of its list: c1 is still
\* registered.
C32_Witness ==
    /\ task["b2"].pc = "sending"
    /\ task["b2"].connections_copy = <<"c1">>
    /\ active_connections = <<"c1", "c2">>
    /\ Dumps(task["b2"].message) \notin Range(received["c2"])
    /\ task["b1"].pc = "sending"
    /\ task["b1"].connections_copy = <<"c1", "c2">>
    /\ task["b1"].i = 2
    /\ task["b1"].disconnected_connections = <<"c1">>
    /\ DOMAIN connection_info = {"c1", "c2"}

\* the newest alarm record of machine m is the open event ev, and it is the
\* last entry of the machine's active list: ev was the last event of m
JustIngested(m, ev) ==
    LET h   == AlarmHistory(m)
        act == ActiveOf(m)
    IN  /\ h # <<>> /\ act # <<>>
        /\ act[Len(act)] = h[Len(h)]
        /\ alarm_objs[h[Len(h)]] = ev

\* the last k records of the alarm history of machine m, by value
NewestRecords(m, k) ==
    LET h == AlarmHistory(m)
    IN  [j \in 1..Min(k, Len(h)) |-> alarm_objs[h[Len(h) - Min(k, Len(h)) + j]]]

\* C33, as stated: ingesting an open event again right after it was ingested
\* leaves the active registry as it was, with one entry for the alarm, and
\* the alarm history then holds the event twice.
C33_Original ==
    [][last'.op = "add_alarm_data" =>
       \A m \in Machines, a \in AlarmIds, sev \in Severities, msg \in Messages,
          ackby \in PayloadAcks :
          LET ev == NewAlarm(m, a, sev, msg, ackby, FALSE) IN
          (add_alarm_data(m, a, sev, msg, ackby, FALSE) /\ JustIngested(m, ev)) =>
            /\ get_active_alarms' = get_active_alarms
            /\ Cardinality({i \in 1..Len(ActiveOf(m)') : ActiveIds(m)'[i] = a}) = 1
            /\ NewestRecords(m, 2)' = <<ev, ev>>
      ]_vars

\* C33 (amended): ingesting an open event again right after it was ingested
\* leaves the active registry as it was, by value, with one entry for the
\* alarm - the entry is a new object, the last of the list as before - and
\* appends a second record of the event to the alarm history, which then
\* ends with the event twice when the capacity is at least 2 and holds it
\* once when the capacity is 1.
C33_DuplicateOpenEventIdempotent ==
    [][last'.op = "add_alarm_data" =>
       \A m \in Machines, a \in AlarmIds, sev \in Severities, msg \in Messages,
          ackby \in PayloadAcks :
          LET ev == NewAlarm(m, a, sev, msg, ackby, FALSE) IN
          (add_alarm_data(m, a, sev, msg, ackby, FALSE) /\ JustIngested(m, ev)) =>
            /\ get_active_alarms' = get_active_alarms
            /\ Cardinality({i \in 1..Len(ActiveOf(m)') : ActiveIds(m)'[i] = a}) = 1
            /\ ActiveOf(m)' = Append(SubSeq(ActiveOf(m), 1, Len(ActiveOf(m)) - 1), calls')
            /\ AlarmHistory(m)' # <<>>
            /\ AlarmHistory(m)'[Len(AlarmHistory(m)')] = calls'
            /\ max_history_size >= 2 => NewestRecords(m, 2)' = <<ev, ev>>
            /\ max_history_size = 1 => NewestRecords(m, 2)' = <<ev>>
      ]_vars

\* C33, witness: alarm A2 of M1 is active, then the open event of A1 was
\* ingested twice: the active list holds A2 and one entry of A1, the second
\* object, and the history of capacity 2 holds the two records of A1
C33_Witness ==
    /\ calls = 3
    /\ last.op = "add_alarm_data"
    /\ "M1" \in DOMAIN active_alarms
    /\ active_alarms["M1"] = <<1, 3>>
    /\ alarm_data["M1"] = <<2, 3>>
    /\ alarm_objs[1].alarm_id = "A2"
    /\ alarm_objs[2] = alarm_objs[3]
    /\ alarm_objs[3].alarm_id = "A1"
    /\ ~alarm_objs[3].resolved

\* list r is the end of history h cut to limit entries; limit 0 is no limit
IsHistoryTail(r, h, limit) ==
    IF limit = 0 THEN r = h
    ELSE /\ Len(r) = Min(limit, Len(h))
         /\ Len(r) <= limit
         /\ \A j \in 1..Len(r) : r[j] = h[Len(h) - Len(r) + j]

\* C34: get_process_history and get_alarm_history with a limit of at least 1
\* return the last min(limit, length) entries of the machine's history in
\* insertion order, never more than limit entries; with limit 0 they return
\* the whole history.
C34_HistoryLimitedToLastEntries ==
    [][last'.op \in {"get_process_history", "get_alarm_history"} =>
       \A m \in Machines, limit \in QueryLimits :
          /\ get_process_history(m, limit)
                => IsHistoryTail(last'.ret, Get(process_data, m), limit)
          /\ get_alarm_history(m, limit)
                => IsHistoryTail(snapshot', AlarmHistory(m), limit)
      ]_vars

\* C34, witness: the history of M1 holds two samples and the accessor was
\* called with limit 1: it returned the newer sample alone
C34_Witness ==
    /\ last.op = "get_process_history"
    /\ Len(Get(process_data, "M1")) = 2
    /\ process_data["M1"][1] # process_data["M1"][2]
    /\ last.ret = <<process_data["M1"][2]>>

\* each machine with a latest value has a history that ends with that value
CachesAgreeWithHistories ==
    /\ \A m \in DOMAIN latest_process :
          /\ Get(process_data, m) # <<>>
          /\ process_data[m][Len(process_data[m])] = latest_process[m]
    /\ \A m \in DOMAIN latest_status :
          /\ Get(status_data, m) # <<>>
          /\ status_data[m][Len(status_data[m])] = latest_status[m]

\* C35: whenever the store lock is free, and whenever an accessor is in its
\* body, the history of every machine that has a latest process or status
\* value ends with that value; the state between the append and the update
\* of the cache exists only while the writer holds the lock.
C35_LatestIsNewestOfHistory ==
    /\ lock = None => CachesAgreeWithHistories
    /\ \A t \in Threads :
          /\ thread_pc[t] = "body" /\ thread_op[t] \in CacheReaders
                => CachesAgreeWithHistories
          /\ thread_pc[t] = "cache" => lock = t

\* C35, witness: a writer has appended the second sample of M1 and has not
\* updated the cache yet - the cache holds the first sample, the history ends
\* with the second - and the accessor of the other thread waits at the lock
C35_Witness ==
    /\ \E t \in Threads : \E u \in Threads \ {t} :
          /\ thread_pc[t] = "cache"
          /\ lock = t
          /\ thread_pc[u] = "acquire"
          /\ thread_op[u] = "get_latest_process_data"
    /\ "M1" \in DOMAIN latest_process
    /\ process_data["M1"][Len(process_data["M1"])] # latest_process["M1"]

\* C36: at every suspension point the clients of the list are the clients
\* with metadata, each listed once, while clients connect, go away and are
\* unregistered by their endpoint, the heartbeat broadcast runs and the
\* cleanup closes stale clients; the step of a broadcast changes the
\* metadata of no client that has none, so a send that completes for a
\* client unregistered in the meantime creates nothing.
C36_ListAndMetadataAgree ==
    /\ [](Range(active_connections) = DOMAIN connection_info)
    /\ [](\A i, j \in 1..Len(active_connections) :
             active_connections[i] = active_connections[j] => i = j)
    /\ [][\A ws \in Clients :
            (broadcast_resume(Heartbeat) /\ ws \notin DOMAIN connection_info)
               => /\ ws \notin DOMAIN connection_info'
                  /\ ws \notin Range(active_connections')]_vars

\* C36, witness: the heartbeat was sent to c1 and the broadcast is suspended
\* in that send; c1 has gone away and its endpoint has unregistered it, c2
\* has registered since
C36_Witness ==
    /\ task[Heartbeat].pc = "sending"
    /\ task[Heartbeat].connections_copy = <<"c1">>
    /\ task[Heartbeat].outcome = "sent"
    /\ Dumps(task[Heartbeat].message) \in Range(received["c1"])
    /\ active_connections = <<"c2">>
    /\ DOMAIN connection_info = {"c2"}

\* the step resumes the heartbeat broadcast after a send to ws that succeeded
DeliveredTo(ws) ==
    /\ broadcast_resume(Heartbeat)
    /\ task[Heartbeat].connections_copy[task[Heartbeat].i] = ws
    /\ task[Heartbeat].outcome = "sent"

\* C37: the last_ping of a registered client changes only when a broadcast
\* resumes after a successful send to it, and every such resumption sets it
\* to the time of the resumption; a text of the client and its echo leave it
\* alone.  So when the heartbeat broadcast has returned, no registered client
\* has a last_ping older than the start of that broadcast, and the cleanup
\* that follows finds a client stale only if more than the idle threshold
\* has passed since that start.
C37_LastPingFollowsDelivery ==
    /\ [][\A ws \in Clients :
            /\ (ws \in DOMAIN connection_info /\ ws \in DOMAIN connection_info'
                  /\ connection_info'[ws] # connection_info[ws])
                  => /\ DeliveredTo(ws)
                     /\ connection_info'[ws] = [connection_info[ws] EXCEPT !.last_ping = now]
            /\ (DeliveredTo(ws) /\ ws \in DOMAIN connection_info)
                  => /\ ws \in DOMAIN connection_info'
                     /\ connection_info'[ws].last_ping = now
            /\ endpoint_echo(ws) => connection_info' = connection_info]_vars
    /\ [](task[Heartbeat].pc \in {"returned", "closing"} =>
             \A ws \in DOMAIN connection_info :
                connection_info[ws].last_ping >= task[Heartbeat].message.timestamp)
    /\ [][cleanup_begin =>
            \A k \in 1..Len(task'[Heartbeat].stale_connections) :
               (now - task[Heartbeat].message.timestamp) * 60 > MaxIdleMinutes]_vars
    /\ [][cleanup_resume =>
            /\ (now - task[Heartbeat].message.timestamp) * 60 > MaxIdleMinutes
            /\ Range(active_connections) \ Range(active_connections')
                  \subseteq {task[Heartbeat].stale_connections[task[Heartbeat].i]}]_vars

\* C37, witness: the heartbeat of hour 0 was delivered to c1, which then sent
\* a text and got its echo; the clock has reached hour 24 before the cleanup
\* ran, which found c1 stale and is closing it
C37_Witness ==
    /\ task[Heartbeat].pc = "closing"
    /\ task[Heartbeat].stale_connections = <<"c1">>
    /\ task[Heartbeat].message.timestamp = 0
    /\ now = 24
    /\ "c1" \in DOMAIN connection_info
    /\ connection_info["c1"].last_ping = 0
    /\ received["c1"] = <<Dumps(WelcomeMessage), <<"heartbeat", 1>>, Dumps(EchoMessage)>>

\* C38: an open event for an alarm whose active entry an operator has
\* acknowledged replaces that entry by the record of the event: the machine
\* then has one active entry of the alarm, the new record, whose
\* acknowledged, acknowledged_by and acknowledged_at are those of the event
\* (unacknowledged if the event carries no acknowledgement); the operator's
\* acknowledgment is left on the replaced record only.
C38_UpdateDropsAcknowledgment ==
    [][last'.op = "add_alarm_data" =>
       \A m \in Machines, a \in AlarmIds, sev \in Severities, msg \in Messages,
          ackby \in EventAcks :
          (/\ add_alarm_data(m, a, sev, msg, ackby, FALSE)
           /\ HasActive(m, a)
           /\ alarm_objs[ActiveObj(m, a)].acknowledged
           /\ alarm_objs[ActiveObj(m, a)].acknowledged_by \in Users) =>
            /\ {i \in 1..Len(ActiveOf(m)') : ActiveIds(m)'[i] = a} = {Len(ActiveOf(m)')}
            /\ ActiveObj(m, a)' = calls'
            /\ alarm_objs'[calls'] = NewAlarm(m, a, sev, msg, ackby, FALSE)
            /\ alarm_objs'[calls'].acknowledged = (ackby # None)
            /\ alarm_objs'[calls'].acknowledged_by = ackby
            /\ alarm_objs'[calls'].acknowledged_by
                  # alarm_objs[ActiveObj(m, a)].acknowledged_by
            /\ ActiveObj(m, a) \notin Range(ActiveOf(m)')
            /\ ActiveObj(m, a) \in DOMAIN alarm_objs'
                  => alarm_objs'[ActiveObj(m, a)] = alarm_objs[ActiveObj(m, a)]
      ]_vars

\* C38, witness: alarm A1 of M1 was opened, acknowledged by op1 and then
\* updated by an event without acknowledgement: the active entry is the
\* third object, unacknowledged
C38_Witness ==
    /\ calls = 3
    /\ last.op = "add_alarm_data"
    /\ "M1" \in DOMAIN active_alarms
    /\ active_alarms["M1"] = <<3>>
    /\ alarm_objs[3].alarm_id = "A1"
    /\ ~alarm_objs[3].acknowledged
    /\ alarm_objs[3].acknowledged_by = None
    /\ max_history_size = 2
    /\ alarm_data["M1"] = <<1, 3>>
    /\ alarm_objs[1].acknowledged_by = "op1"

\* the record of active object o of machine m has left the alarm history
Evicted(m, o) == o \in Range(ActiveOf(m)) /\ o \notin Range(AlarmHistory(m))

\* C39: the active registry is independent of the alarm history's capacity.
\* An alarm event changes the active list of its machine only at the entry
\* of its own alarm: every other active entry, whether or not its record
\* is still in the bounded history, stays in the list, in order and
\* unaltered. An alarm whose opening record has been evicted from the
\* history is still found by acknowledge_alarm and resolve_alarm: each
\* returns true, the first stamping the entry, the second removing it.
C39_EvictionLeavesActiveRegistry ==
    [][\A m \in Machines :
         /\ last'.op = "add_alarm_data" =>
              LET ev   == alarm_objs'[calls']
                  mine == ev.machine_id = m
                  kept == SelectSeq(ActiveOf(m),
                                    LAMBDA o : ~mine \/ alarm_objs[o].alarm_id # ev.alarm_id)
              IN  /\ ActiveOf(m)' = kept \o (IF mine /\ ~ev.resolved THEN <<calls'>> ELSE <<>>)
                  /\ \A o \in Range(kept) : alarm_objs'[o] = alarm_objs[o]
         /\ \A a \in AlarmIds, u \in Users :
              (/\ HasActive(m, a)
               /\ Evicted(m, ActiveObj(m, a))
               /\ acknowledge_alarm(m, a, u)) =>
                 /\ last'.ret = "True"
                 /\ ActiveOf(m)' = ActiveOf(m)
                 /\ alarm_objs'[ActiveObj(m, a)] = Acknowledge(alarm_objs[ActiveObj(m, a)], u)
         /\ \A a \in AlarmIds, u \in Users :
              (/\ HasActive(m, a)
               /\ Evicted(m, ActiveObj(m, a))
               /\ resolve_alarm(m, a, u)) =>
                 /\ last'.ret = "True"
                 /\ ~HasActive(m, a)'
                 /\ Len(ActiveOf(m)') = Len(ActiveOf(m)) - 1
      ]_vars

\* C39, witness: with a history of one record, A1 and A2 of M1 were opened;
\* the record of A1 has left the history, both alarms are active (more
\* entries than the history may hold), and A1 was acknowledged with result true
C39_Witness ==
    /\ max_history_size = 1
    /\ last = Call("acknowledge_alarm", "True")
    /\ "M1" \in DOMAIN active_alarms
    /\ active_alarms["M1"] = <<1, 2>>
    /\ alarm_data["M1"] = <<2>>
    /\ Evicted("M1", 1)
    /\ alarm_objs[1].alarm_id = "A1"
    /\ alarm_objs[1].acknowledged
    /\ Len(active_alarms["M1"]) > max_history_size

\* connect has issued the send of the welcome message to ws
WelcomeIssued(ws) == connecting[ws] \notin {"idle", "accepted"}

\* in this step a broadcast issues a send of its event to ws
BroadcastSendsTo(ws) ==
    \E t \in Tasks :
       /\ task'[t].pc = "sending"
       /\ task'[t].connections_copy[task'[t].i] = ws
       /\ task[t].pc # "sending" \/ task'[t].i # task[t].i

\* C40: the welcome event is the first event sent to a newly registered
\* client. A client is in the active set only once the send of its welcome
\* event has been issued, a broadcast issues a send to a client only after
\* that, and whatever a client has received starts with the welcome event.
C40_WelcomeIsFirstEvent ==
    /\ [](\A ws \in {"c1", "c2"} :
            /\ ws \in Range(active_connections) => WelcomeIssued(ws)
            /\ received[ws] # <<>> => received[ws][1] = Dumps(WelcomeMessage)
            /\ \A k \in 2..Len(received[ws]) : received[ws][k] # Dumps(WelcomeMessage))
    /\ [][\A ws \in {"c1", "c2"} : BroadcastSendsTo(ws) => WelcomeIssued(ws)]_vars

\* C40, witness: c2 registered while the broadcast of b1 was suspended in
\* its send to c1; c2 is not in that broadcast's copy, was sent the welcome
\* event first and then the event of the later broadcast of b2
C40_Witness ==
    /\ task["b1"].pc = "sending"
    /\ task["b1"].connections_copy = <<"c1">>
    /\ active_connections = <<"c1", "c2">>
    /\ Len(received["c2"]) = 2
    /\ received["c2"][1] = Dumps(WelcomeMessage)
    /\ received["c2"][2][1] = "alarm"
    /\ task["b1"].message.seq < received["c2"][2][2]

====
